---- MODULE Spec2Model ----
(***************************************************************************)
(* A model of the tree engine and the id-prefix index of jj's library:     *)
(*   lib/src/id_prefix.rs   IdIndex, IdPrefixContext                       *)
(*   lib/src/tree.rs        recursive diff, three-way merge, conflict      *)
(*                          simplification                                 *)
(*                                                                         *)
(* Object ids are byte strings; a byte is a number 0..255 and its hex view *)
(* is two digits 0..15.  Content-addressed ids (TreeId, ConflictId,        *)
(* FileId) are represented by the content they address.                    *)
(***************************************************************************)
EXTENDS Integers, Sequences, FiniteSets, TLC

VARIABLES
    index,      \* IdIndex.0 : the sorted Vec<(K, V)>
    built,      \* whether IdIndex::from_vec has run
    call,       \* the last IdIndex operation and its argument
    ret,        \* what that operation returned
    root1,      \* TreeDiffIterator: the tree diffed from (entry table of the root)
    root2,      \* TreeDiffIterator: the tree diffed to
    matcher,    \* TreeDiffIterator.matcher
    stack,      \* TreeDiffIterator.stack : Vec<TreeDiffItem>, top last
    emitted,    \* the items next() has returned so far, in order
    exhausted,  \* whether next() has returned None
    unreadable, \* Store: the tree ids whose get_tree fails with a BackendError
    side1,      \* merge_trees: the id of side1_tree
    base,       \* merge_trees: the id of base_tree
    side2,      \* merge_trees: the id of side2_tree
    merged,     \* the outcome of merge_trees(side1, base, side2)
    swapped,    \* the outcome of merge_trees(side2, base, side1)
    given,      \* simplify_conflict: the conflict passed in
    once,       \* the outcome of simplify_conflict(given)
    twice,      \* the outcome of simplify_conflict on the conflict in once
    repo,       \* IdPrefixContext: the commits of the repo the calls are given
    scope,      \* IdPrefixContext.disambiguation : Option<DisambiguationData>
    cell,       \* DisambiguationData.indexes : OnceCell<Indexes>
    evals,      \* how many times the revset has been resolved and evaluated
    builds,     \* how many times the pair of indexes has been stored in the cell
    ctxCall,    \* the last IdPrefixContext operation, its argument, and whether it
                \* ran the closure of get_or_try_init and whether that failed
    ctxRet,     \* what that operation returned
    resolving,  \* try_resolve_file_conflict: the conflict passed in
    tried       \* the outcome of try_resolve_file_conflict(resolving)

idxVars == <<index, built, call, ret>>
diffVars == <<root1, root2, matcher, stack, emitted, exhausted, unreadable>>
mergeVars == <<side1, base, side2, merged, swapped>>
conflictVars == <<given, once, twice>>
ctxVars == <<repo, scope, cell, evals, builds, ctxCall, ctxRet>>
resolveVars == <<resolving, tried>>
nonIdxVars == <<diffVars, mergeVars, conflictVars, ctxVars, resolveVars>>
nonDiffVars == <<idxVars, mergeVars, conflictVars, ctxVars, resolveVars>>
nonMergeVars == <<idxVars, diffVars, conflictVars, ctxVars, resolveVars>>
nonConflictVars == <<idxVars, diffVars, mergeVars, ctxVars, resolveVars>>
nonCtxVars == <<idxVars, diffVars, mergeVars, conflictVars, resolveVars>>
nonResolveVars == <<idxVars, diffVars, mergeVars, conflictVars, ctxVars>>
vars == <<index, built, call, ret, root1, root2, matcher, stack, emitted, exhausted,
          unreadable,
          side1, base, side2, merged, swapped, given, once, twice,
          repo, scope, cell, evals, builds, ctxCall, ctxRet,
          resolving, tried>>

----------------------------------------------------------------------------
(* Generic helpers *)

Min(a, b) == IF a < b THEN a ELSE b

Range(s) == {s[i] : i \in 1..Len(s)}

SeqsUpTo(S, n) == UNION {[1..m -> S] : m \in 0..n}

\* Lexicographic order of byte strings ([u8] as Ord): a proper prefix is less.
RECURSIVE BytesLess(_, _)
BytesLess(a, b) ==
    IF b = <<>> THEN FALSE
    ELSE IF a = <<>> THEN TRUE
    ELSE IF a[1] # b[1] THEN a[1] < b[1]
    ELSE BytesLess(Tail(a), Tail(b))

----------------------------------------------------------------------------
(* ObjectId and HexPrefix *)

\* ObjectId::hex: two hex digits per byte, high digit first.
Hex(bytes) ==
    [i \in 1..(2 * Len(bytes)) |->
        IF i % 2 = 1 THEN bytes[(i + 1) \div 2] \div 16
                     ELSE bytes[i \div 2] % 16]

\* s starts with p
StartsWith(s, p) ==
    /\ Len(p) <= Len(s)
    /\ \A i \in 1..Len(p) : s[i] = p[i]

\* backend::common_hex_len: number of leading hex digits two ids share.
CommonHexLen(a, b) ==
    LET ha == Hex(a)
        hb == Hex(b)
        n  == Min(Len(ha), Len(hb))
    IN  Cardinality({i \in 1..n : \A j \in 1..i : ha[j] = hb[j]})

\* HexPrefix::new(hex): the prefix keeps the bytes of the hex string, an odd
\* trailing digit being padded with a zero low digit, and remembers whether
\* that last byte is a half byte.  (The unit test of resolve_prefix pins the
\* padding down: "f" is not the empty prefix, it resolves to NoMatch.)
HexPrefix(hex) ==
    LET odd    == Len(hex) % 2 = 1
        padded == IF odd THEN Append(hex, 0) ELSE hex
    IN  [hex |-> hex,
         min_prefix_bytes |->
            [i \in 1..(Len(padded) \div 2) |-> padded[2 * i - 1] * 16 + padded[2 * i]],
         has_odd_byte |-> odd]

\* HexPrefix::matches(id): id's hex starts with the prefix's hex string.
PrefixMatches(prefix, id) == StartsWith(Hex(id), prefix.hex)

----------------------------------------------------------------------------
(* PrefixResolution<T> *)

NoMatch == [kind |-> "NoMatch", values |-> <<>>]
AmbiguousMatch == [kind |-> "AmbiguousMatch", values |-> <<>>]
SingleMatch(vs) == [kind |-> "SingleMatch", values |-> vs]

----------------------------------------------------------------------------
(* IdIndex<K, V> *)

KeyOf(entry) == entry[1]
ValueOf(entry) == entry[2]

\* self.0.partition_point(|(k, _)| k < bytes): the number of leading entries
\* whose key is less than bytes (the 0-based position of the first that is not).
PartitionPoint(idx, bytes) ==
    Cardinality({i \in 1..Len(idx) : \A j \in 1..i : BytesLess(idx[j][1], bytes)})

IsSortedByKey(s) ==
    \A i \in 1..(Len(s) - 1) : ~BytesLess(KeyOf(s[i + 1]), KeyOf(s[i]))

\* IdIndex::from_vec: sort_unstable_by key.  The sort is not stable, so the
\* order of the entries of one key is any order: the set of possible results.
FromVecResults(vec) ==
    {s \in {[i \in 1..Len(vec) |-> vec[f[i]]] : f \in Permutations(1..Len(vec))} :
        IsSortedByKey(s)}

\* IdIndex::resolve_prefix_range: from the partition point of min_prefix_bytes,
\* the entries taken while the prefix matches.
ResolvePrefixRange(idx, prefix) ==
    LET pos  == PartitionPoint(idx, prefix.min_prefix_bytes)
        rest == SubSeq(idx, pos + 1, Len(idx))
        n    == Cardinality({i \in 1..Len(rest) :
                                \A j \in 1..i : PrefixMatches(prefix, KeyOf(rest[j]))})
    IN  SubSeq(rest, 1, n)

\* resolve_prefix_with without its test for the empty prefix.
ResolvePrefix_NoEmptyTest(idx, prefix) ==
    LET range == ResolvePrefixRange(idx, prefix)
    IN  IF range = <<>> THEN NoMatch
        ELSE IF \A i \in 1..Len(range) : KeyOf(range[i]) = KeyOf(range[1])
             THEN SingleMatch([i \in 1..Len(range) |-> ValueOf(range[i])])
             ELSE AmbiguousMatch

\* IdIndex::resolve_prefix_with, with the cloning value mapper of resolve_prefix.
ResolvePrefix(idx, prefix) ==
    IF prefix.min_prefix_bytes = <<>> THEN AmbiguousMatch
    ELSE LET range == ResolvePrefixRange(idx, prefix)
         IN  IF range = <<>> THEN NoMatch
             ELSE IF \A i \in 1..Len(range) : KeyOf(range[i]) = KeyOf(range[1])
                  THEN SingleMatch([i \in 1..Len(range) |-> ValueOf(range[i])])
                  ELSE AmbiguousMatch

\* IdIndex::has_key: binary search on the sorted vector.
HasKey(idx, key) == \E i \in 1..Len(idx) : KeyOf(idx[i]) = key

\* shortest_unique_prefix_len taking the entry at the partition point as the
\* right neighbour, equal keys not skipped.
ShortestUniquePrefixLen_EqualNotSkipped(idx, key) ==
    LET pos    == PartitionPoint(idx, key)
        left   == IF pos >= 1 THEN {idx[pos]} ELSE {}
        right  == IF pos + 1 <= Len(idx) THEN {idx[pos + 1]} ELSE {}
        lens   == {CommonHexLen(key, KeyOf(e)) + 1 : e \in left \cup right}
    IN  IF lens = {} THEN 1
        ELSE CHOOSE m \in lens : \A l \in lens : l <= m

\* IdIndex::shortest_unique_prefix_len: the longest common hex prefix with the
\* left neighbour (strictly less) and the right neighbour (the first entry
\* from the partition point on whose key differs), plus one.
ShortestUniquePrefixLen(idx, key) ==
    LET pos    == PartitionPoint(idx, key)
        left   == IF pos >= 1 THEN {idx[pos]} ELSE {}
        after  == {i \in (pos + 1)..Len(idx) : KeyOf(idx[i]) # key}
        right  == IF after = {} THEN {}
                  ELSE {idx[CHOOSE i \in after : \A j \in after : i <= j]}
        lens   == {CommonHexLen(key, KeyOf(e)) + 1 : e \in left \cup right}
    IN  IF lens = {} THEN 1
        ELSE CHOOSE m \in lens : \A l \in lens : l <= m

----------------------------------------------------------------------------
(* Bounds and input sets of the IdIndex specification *)

MaxEntries == 3

HexDigits == {0, 1}
IdBytes == {0, 1, 16}                \* hex 00, 01, 10
KeyLens == {1, 2}                    \* ids of one and of two bytes
Keys == UNION {[1..n -> IdBytes] : n \in KeyLens}
IdxValues == {1, 2}
Vecs == SeqsUpTo(Keys \X IdxValues, MaxEntries)
HexStrings == SeqsUpTo(HexDigits, 4)

----------------------------------------------------------------------------
(* The IdIndex state machine *)

\* The state of the components a specification does not exercise.
IdxIdle ==
    /\ index = <<>>
    /\ built = FALSE
    /\ call = [op |-> "idle", arg |-> <<>>]
    /\ ret = <<>>

DiffIdle ==
    /\ root1 = <<>>
    /\ root2 = <<>>
    /\ matcher = [kind |-> "none"]
    /\ stack = <<>>
    /\ emitted = <<>>
    /\ exhausted = TRUE
    /\ unreadable = {}

\* The function has not been called.
NotCalled == [called |-> FALSE]

MergeIdle ==
    /\ side1 = <<>>
    /\ base = <<>>
    /\ side2 = <<>>
    /\ merged = NotCalled
    /\ swapped = NotCalled

ConflictIdle ==
    /\ given = [removes |-> <<>>, adds |-> <<>>]
    /\ once = NotCalled
    /\ twice = NotCalled

\* No call of IdPrefixContext is under way.
CtxNoCall == [op |-> "idle", arg |-> <<>>, evaluated |-> FALSE, failed |-> FALSE]

\* The OnceCell before its first successful initialisation.
Unset == [set |-> FALSE]

\* IdPrefixContext::default(): no scope.
NoScope == [some |-> FALSE]

CtxIdle ==
    /\ repo = {}
    /\ scope = NoScope
    /\ cell = Unset
    /\ evals = 0
    /\ builds = 0
    /\ ctxCall = CtxNoCall
    /\ ctxRet = <<>>

ResolveIdle ==
    /\ resolving = [removes |-> <<>>, adds |-> <<>>]
    /\ tried = NotCalled

IdxInit ==
    /\ index = <<>>
    /\ built = FALSE
    /\ call = [op |-> "idle", arg |-> <<>>]
    /\ ret = <<>>
    /\ DiffIdle
    /\ MergeIdle
    /\ ConflictIdle
    /\ CtxIdle
    /\ ResolveIdle

\* IdIndex::from_vec(vec)
DoFromVec ==
    /\ ~built
    /\ \E vec \in Vecs : \E s \in FromVecResults(vec) :
          index' = s
    /\ built' = TRUE
    /\ UNCHANGED <<call, ret>>
    /\ UNCHANGED nonIdxVars

\* IdIndex::resolve_prefix(prefix)
DoResolvePrefix ==
    /\ built
    /\ call.op = "idle"
    /\ \E hex \in HexStrings :
          /\ call' = [op |-> "resolve_prefix", arg |-> hex]
          /\ ret' = ResolvePrefix(index, HexPrefix(hex))
    /\ UNCHANGED <<index, built>>
    /\ UNCHANGED nonIdxVars

\* IdIndex::has_key(key)
DoHasKey ==
    /\ built
    /\ call.op = "idle"
    /\ \E key \in Keys :
          /\ call' = [op |-> "has_key", arg |-> key]
          /\ ret' = HasKey(index, key)
    /\ UNCHANGED <<index, built>>
    /\ UNCHANGED nonIdxVars

\* IdIndex::shortest_unique_prefix_len(key)
DoShortestUniquePrefixLen ==
    /\ built
    /\ call.op = "idle"
    /\ \E key \in Keys :
          /\ call' = [op |-> "shortest_unique_prefix_len", arg |-> key]
          /\ ret' = ShortestUniquePrefixLen(index, key)
    /\ UNCHANGED <<index, built>>
    /\ UNCHANGED nonIdxVars

\* The caller takes the result; the index is ready for the next call.
IdxReturn ==
    /\ call.op # "idle"
    /\ call' = [op |-> "idle", arg |-> <<>>]
    /\ ret' = <<>>
    /\ UNCHANGED <<index, built>>
    /\ UNCHANGED nonIdxVars

IdxNext ==
    \/ DoFromVec
    \/ IdxReturn
    \/ DoResolvePrefix
    \/ DoHasKey
    \/ DoShortestUniquePrefixLen

SpecIdx == IdxInit /\ [][IdxNext]_vars

----------------------------------------------------------------------------
(* Properties of IdIndex *)

\* The number of times each value occurs in a sequence.
BagOfSeq(s) == [v \in Range(s) |-> Cardinality({i \in 1..Len(s) : s[i] = v})]

IndexKeys == {KeyOf(index[i]) : i \in 1..Len(index)}

\* The keys of the index whose hex starts with the hex string h.
KeysStartingWith(h) == {k \in IndexKeys : StartsWith(Hex(k), h)}

EntryValuesUnder(k) ==
    LET es == SelectSeq(index, LAMBDA e : KeyOf(e) = k)
    IN  BagOfSeq([i \in 1..Len(es) |-> ValueOf(es[i])])

\* C1: resolve_prefix(p) is AmbiguousMatch for the empty p; for a non-empty p
\* (a single hex digit included) it is NoMatch when no key's hex starts with
\* p, SingleMatch with exactly the values stored under the key when one key
\* starts with p, and AmbiguousMatch when two or more distinct keys do.
C1_ResolvePrefix ==
    call.op = "resolve_prefix" =>
        LET p == call.arg
            m == KeysStartingWith(p)
        IN  /\ p = <<>> => ret = AmbiguousMatch
            /\ (p # <<>> /\ m = {}) => ret = NoMatch
            /\ (p # <<>> /\ Cardinality(m) = 1) =>
                    /\ ret.kind = "SingleMatch"
                    /\ BagOfSeq(ret.values) = EntryValuesUnder(CHOOSE k \in m : TRUE)
            /\ (p # <<>> /\ Cardinality(m) >= 2) => ret = AmbiguousMatch

\* C1 witness: a single hex digit resolved to one key that holds two values,
\* in an index that also holds another key.
C1_Witness ==
    /\ call.op = "resolve_prefix"
    /\ Len(call.arg) = 1
    /\ ret.kind = "SingleMatch"
    /\ Len(ret.values) = 2
    /\ Cardinality(IndexKeys) = 2

ProperHexPrefix(a, b) == Len(Hex(a)) < Len(Hex(b)) /\ StartsWith(Hex(b), Hex(a))

\* The first n hex digits of k (all of them when k has fewer).
FirstDigits(k, n) == SubSeq(Hex(k), 1, Min(n, Len(Hex(k))))

OtherKeys(k) == IndexKeys \ {k}

\* C2 as stated: with L = shortest_unique_prefix_len(I, k), the first L digits
\* of k match no key distinct from k, the first L-1 digits match a key
\* distinct from k (when there is one), and L = 1 when there is none.
C2_AsStated ==
    call.op = "shortest_unique_prefix_len" =>
        LET k == call.arg
            L == ret
        IN  /\ \A o \in OtherKeys(k) : ~StartsWith(Hex(o), FirstDigits(k, L))
            /\ OtherKeys(k) # {} =>
                    \E o \in OtherKeys(k) : StartsWith(Hex(o), FirstDigits(k, L - 1))
            /\ OtherKeys(k) = {} => L = 1

\* C2 amended: the statement holds when k is not a proper hex prefix of a key
\* of the index; when it is, L is the number of digits of k plus one.
C2_ShortestUnique ==
    call.op = "shortest_unique_prefix_len" =>
        LET k == call.arg
            L == ret
        IN  IF \E o \in IndexKeys : ProperHexPrefix(k, o)
            THEN L = Len(Hex(k)) + 1
            ELSE /\ \A o \in OtherKeys(k) : ~StartsWith(Hex(o), FirstDigits(k, L))
                 /\ OtherKeys(k) # {} =>
                        \E o \in OtherKeys(k) : StartsWith(Hex(o), FirstDigits(k, L - 1))
                 /\ OtherKeys(k) = {} => L = 1

\* C2 witness: a stored key with a smaller and a larger neighbour, none of
\* which it is a prefix of, needs three digits.
C2_Witness ==
    /\ call.op = "shortest_unique_prefix_len"
    /\ call.arg \in IndexKeys
    /\ Cardinality(IndexKeys) = 3
    /\ \E a, b \in IndexKeys : BytesLess(a, call.arg) /\ BytesLess(call.arg, b)
    /\ ~\E o \in IndexKeys : ProperHexPrefix(call.arg, o)
    /\ ret = 3

----------------------------------------------------------------------------
(* TreeValue, backend::Tree and the Tree snapshot *)

\* Option::None for an absent entry.
None == <<"None">>

\* TreeValue::File { id, executable }; a FileId stands for the content it addresses.
FileValue(id, executable) == <<"File", id, executable>>
\* TreeValue::Symlink(id)
SymlinkValue(id) == <<"Symlink", id>>
\* TreeValue::Tree(id); the TreeId stands for the entry table it addresses.
TreeValue(id) == <<"Tree", id>>
\* TreeValue::Conflict(id); the ConflictId stands for the conflict it addresses.
ConflictValue(id) == <<"Conflict", id>>

IsTree(v) == v[1] = "Tree"

\* backend::Tree: a map from basename to TreeValue, here a function on the
\* set of basenames present.  Basenames are numbers, ordered as numbers.
EmptyTreeData == <<>>

\* backend::Tree::value(name)
EntryValue(data, name) == IF name \in DOMAIN data THEN data[name] ELSE None

\* backend::Tree::entries(): the (name, value) pairs in basename order.
RECURSIVE SortedNames(_)
SortedNames(S) ==
    IF S = {} THEN <<>>
    ELSE LET m == CHOOSE x \in S : \A y \in S : x <= y
         IN  <<m>> \o SortedNames(S \ {m})

TreeEntries(data) ==
    LET names == SortedNames(DOMAIN data)
    IN  [i \in 1..Len(names) |-> <<names[i], data[names[i]]>>]

\* Store::get_tree(dir, id) of a content-addressed store: the snapshot of the
\* entry table that id addresses.
GetTree(dir, id) == [dir |-> dir, id |-> id, data |-> id]

\* Tree::null(store, dir): empty id, no entries.
NullTree(dir) == [dir |-> dir, id |-> <<"null">>, data |-> EmptyTreeData]

\* Tree::known_sub_tree(name, id)
KnownSubTree(tree, name, id) == GetTree(Append(tree.dir, name), id)

\* RepoPath::root()
RootPath == <<>>

----------------------------------------------------------------------------
(* Matcher *)

EverythingMatcher == [kind |-> "everything"]

\* A matcher given by the paths it matches and the directories it visits.
SetsMatcher(matched, visited) ==
    [kind |-> "sets", matched |-> matched, visited |-> visited]

\* Matcher::matches(path)
Matches(m, path) ==
    \/ m.kind = "everything"
    \/ m.kind = "sets" /\ path \in m.matched

\* !Matcher::visit(dir).is_nothing()
VisitsDir(m, dir) ==
    \/ m.kind = "everything"
    \/ m.kind = "sets" /\ dir \in m.visited

----------------------------------------------------------------------------
(* TreeEntryDiffIterator *)

NoItem == <<"NoItem">>

\* TreeEntryDiffIterator::next with the arms for Less and Greater exchanged.
RECURSIVE TreeEntryDiffNext_ArmsSwapped(_, _)
TreeEntryDiffNext_ArmsSwapped(it1, it2) ==
    IF it1 # <<>> /\ it2 # <<>>
    THEN LET before == it1[1]
             after  == it2[1]
         IN  IF before[1] > after[1]
             THEN [item |-> <<before[1], before[2], None>>, it1 |-> Tail(it1), it2 |-> it2]
             ELSE IF before[1] < after[1]
             THEN [item |-> <<after[1], None, after[2]>>, it1 |-> it1, it2 |-> Tail(it2)]
             ELSE IF before[2] # after[2]
             THEN [item |-> <<before[1], before[2], after[2]>>,
                   it1 |-> Tail(it1), it2 |-> Tail(it2)]
             ELSE TreeEntryDiffNext_ArmsSwapped(Tail(it1), Tail(it2))
    ELSE IF it1 # <<>>
    THEN [item |-> <<it1[1][1], it1[1][2], None>>, it1 |-> Tail(it1), it2 |-> it2]
    ELSE IF it2 # <<>>
    THEN [item |-> <<it2[1][1], None, it2[1][2]>>, it1 |-> it1, it2 |-> Tail(it2)]
    ELSE [item |-> NoItem, it1 |-> it1, it2 |-> it2]

\* TreeEntryDiffIterator::next: it1 and it2 are the entries the two peekable
\* iterators have not yielded yet.  Returns the item and the iterators after.
RECURSIVE TreeEntryDiffNext(_, _)
TreeEntryDiffNext(it1, it2) ==
    IF it1 # <<>> /\ it2 # <<>>
    THEN LET before == it1[1]
             after  == it2[1]
         IN  IF before[1] < after[1]
             THEN \* entry removed
                  [item |-> <<before[1], before[2], None>>, it1 |-> Tail(it1), it2 |-> it2]
             ELSE IF before[1] > after[1]
             THEN \* entry added
                  [item |-> <<after[1], None, after[2]>>, it1 |-> it1, it2 |-> Tail(it2)]
             ELSE IF before[2] # after[2]
             THEN \* entry modified
                  [item |-> <<before[1], before[2], after[2]>>,
                   it1 |-> Tail(it1), it2 |-> Tail(it2)]
             ELSE \* clean: both advance, nothing is yielded
                  TreeEntryDiffNext(Tail(it1), Tail(it2))
    ELSE IF it1 # <<>>
    THEN \* second iterator exhausted
         [item |-> <<it1[1][1], it1[1][2], None>>, it1 |-> Tail(it1), it2 |-> it2]
    ELSE IF it2 # <<>>
    THEN \* first iterator exhausted
         [item |-> <<it2[1][1], None, it2[1][2]>>, it1 |-> it1, it2 |-> Tail(it2)]
    ELSE [item |-> NoItem, it1 |-> it1, it2 |-> it2]

----------------------------------------------------------------------------
(* TreeDiffIterator *)

\* Diff<TreeValue>
Modified(old, new) == <<"Modified", old, new>>
Added(new) == <<"Added", new>>
Removed(old) == <<"Removed", old>>

\* TreeDiffItem::File(path, diff)
FileItem(path, diff) == [kind |-> "File", path |-> path, diff |-> diff]

\* TreeDiffDirItem::new(path, tree1, tree2), as TreeDiffItem::Dir
DirItem(path, tree1, tree2) ==
    [kind |-> "Dir", path |-> path,
     it1 |-> TreeEntries(tree1.data), it2 |-> TreeEntries(tree2.data),
     tree1 |-> tree1, tree2 |-> tree2]

\* TreeDiffDirItem::subdir taking the after side from tree1 as well.
Subdir_BothFromBefore(dir, name, before, after) ==
    LET subdir_path == Append(dir.path, name)
        before_tree == IF IsTree(before) THEN KnownSubTree(dir.tree1, name, before[2])
                       ELSE NullTree(subdir_path)
    IN  DirItem(subdir_path, before_tree, before_tree)

\* TreeDiffDirItem::subdir
Subdir(dir, name, before, after) ==
    LET subdir_path == Append(dir.path, name)
        before_tree == IF IsTree(before) THEN KnownSubTree(dir.tree1, name, before[2])
                       ELSE NullTree(subdir_path)
        after_tree  == IF IsTree(after) THEN KnownSubTree(dir.tree2, name, after[2])
                       ELSE NullTree(subdir_path)
    IN  DirItem(subdir_path, before_tree, after_tree)

\* The deferred item pushed on top of the stack instead of inserted.
InsertDeferred_OnTop(stk, post_subdir, item) == Append(stk, item)

\* Vec::insert(post_subdir, item): the item goes to the 0-based position
\* post_subdir, the items from there on move up by one.
InsertDeferred(stk, post_subdir, item) ==
    SubSeq(stk, 1, post_subdir) \o <<item>> \o SubSeq(stk, post_subdir + 1, Len(stk))

\* TreeDiffIterator::new pushing the root without asking the matcher.
NewTreeDiffStack_VisitNotAsked(m, dir, tree1, tree2) == <<DirItem(dir, tree1, tree2)>>

\* TreeDiffIterator::new
NewTreeDiffStack(m, dir, tree1, tree2) ==
    IF VisitsDir(m, dir) THEN <<DirItem(dir, tree1, tree2)>> ELSE <<>>

Panic == <<"panic">>

\* The panic of Result::unwrap() on the Err that Store::get_tree returned.
UnwrapPanic == <<"panic", "unwrap", "get_tree">>

\* known_sub_tree(name, id) of dir.subdir meets a tree the store cannot read.
SubdirLoadFails(before, after) ==
    \/ IsTree(before) /\ before[2] \in unreadable
    \/ IsTree(after) /\ after[2] \in unreadable

\* TreeDiffIterator::next: the loop over the top of the stack.  Returns the
\* stack after the call and the item returned (NoItem for None).
RECURSIVE TreeDiffNext(_, _)
TreeDiffNext(m, stk) ==
    IF stk = <<>> THEN [stack |-> stk, item |-> NoItem]
    ELSE
    LET top == stk[Len(stk)]
    IN
    IF top.kind = "File"
    THEN [stack |-> SubSeq(stk, 1, Len(stk) - 1), item |-> <<top.path, top.diff>>]
    ELSE
    LET e == TreeEntryDiffNext(top.it1, top.it2)
    IN
    IF e.item = NoItem
    THEN TreeDiffNext(m, SubSeq(stk, 1, Len(stk) - 1))
    ELSE
    LET dir         == [top EXCEPT !.it1 = e.it1, !.it2 = e.it2]
        stk1        == [stk EXCEPT ![Len(stk)] = dir]
        name        == e.item[1]
        before      == e.item[2]
        after       == e.item[3]
        file_path   == Append(dir.path, name)
        tree_before == IsTree(before)
        tree_after  == IsTree(after)
        descend     == (tree_before \/ tree_after) /\ VisitsDir(m, file_path)
        stk2        == IF descend THEN Append(stk1, Subdir(dir, name, before, after))
                       ELSE stk1
        post_subdir == IF descend THEN Len(stk2) - 1 ELSE Len(stk2)
    IN
    IF descend /\ SubdirLoadFails(before, after)
    THEN [stack |-> stk1, item |-> UnwrapPanic]
    ELSE
    IF ~Matches(m, file_path) THEN TreeDiffNext(m, stk2)
    ELSE IF ~tree_before /\ tree_after
    THEN IF before # None
         THEN [stack |-> stk2, item |-> <<file_path, Removed(before)>>]
         ELSE TreeDiffNext(m, stk2)
    ELSE IF tree_before /\ ~tree_after
    THEN IF after # None
         THEN TreeDiffNext(m, InsertDeferred(stk2, post_subdir,
                                             FileItem(file_path, Added(after))))
         ELSE TreeDiffNext(m, stk2)
    ELSE IF ~tree_before /\ ~tree_after
    THEN IF before # None /\ after # None
         THEN [stack |-> stk2, item |-> <<file_path, Modified(before, after)>>]
         ELSE IF after # None
         THEN [stack |-> stk2, item |-> <<file_path, Added(after)>>]
         ELSE IF before # None
         THEN [stack |-> stk2, item |-> <<file_path, Removed(before)>>]
         ELSE [stack |-> stk2, item |-> Panic]
    ELSE TreeDiffNext(m, stk2)

----------------------------------------------------------------------------
(* Bounds and input sets of the diff specification *)

MaxTreeEntries == 5

\* The number of entries of a tree, those of its subdirectories included.
RECURSIVE TreeSize(_)
RECURSIVE SumSizes(_, _)
SumSizes(data, names) ==
    IF names = {} THEN 0
    ELSE LET n == CHOOSE x \in names : TRUE
         IN  (IF IsTree(data[n]) THEN TreeSize(data[n][2]) ELSE 0)
             + SumSizes(data, names \ {n})
TreeSize(data) == Cardinality(DOMAIN data) + SumSizes(data, DOMAIN data)

Names == {1, 2}
DiffLeaves == {FileValue(id, FALSE) : id \in {1, 2}}

\* Entry tables over Names whose entries are drawn from the set vals.
TablesOver(vals) ==
    UNION {[D -> vals] : D \in SUBSET Names}

\* Directories of files, and roots holding files and such directories.
DiffSubTrees == TablesOver(DiffLeaves)
DiffRoots ==
    {t \in TablesOver(DiffLeaves \cup {TreeValue(t) : t \in DiffSubTrees}) :
        TreeSize(t) <= MaxTreeEntries}

Matchers == {EverythingMatcher}

----------------------------------------------------------------------------
(* The recursive diff state machine *)

\* Tree::diff(other, matcher) = recursive_tree_diff(self, other, matcher)
DiffInit ==
    /\ root1 \in DiffRoots
    /\ root2 \in DiffRoots
    /\ matcher \in Matchers
    /\ stack = NewTreeDiffStack(matcher, RootPath,
                                GetTree(RootPath, root1), GetTree(RootPath, root2))
    /\ emitted = <<>>
    /\ exhausted = FALSE
    /\ unreadable = {}
    /\ IdxIdle
    /\ MergeIdle
    /\ ConflictIdle
    /\ CtxIdle
    /\ ResolveIdle

\* One call of TreeDiffIterator::next
DiffIterNext ==
    /\ ~exhausted
    /\ LET r == TreeDiffNext(matcher, stack)
       IN  /\ stack' = r.stack
           /\ emitted' = IF r.item = NoItem THEN emitted ELSE Append(emitted, r.item)
           /\ exhausted' = (r.item = NoItem \/ r.item = Panic \/ r.item = UnwrapPanic)
    /\ UNCHANGED <<root1, root2, matcher, unreadable>>
    /\ UNCHANGED nonDiffVars

DiffNext == DiffIterNext

SpecDiff == DiffInit /\ [][DiffNext]_vars

----------------------------------------------------------------------------
(* Properties of the recursive diff *)

\* The value stored at a path (a directory included), None when there is none.
RECURSIVE ValueAt(_, _)
ValueAt(data, path) ==
    IF path = <<>> THEN TreeValue(data)
    ELSE LET v == EntryValue(data, path[1])
         IN  IF Len(path) = 1 THEN v
             ELSE IF IsTree(v) THEN ValueAt(v[2], Tail(path))
             ELSE None

\* The non-tree value at a path: None when the path is absent or a directory.
LeafAt(data, path) ==
    LET v == ValueAt(data, path) IN IF IsTree(v) THEN None ELSE v

AllPaths == UNION {[1..n -> Names] : n \in 1..2}

\* q lies strictly below the directory p.
StrictlyBelow(q, p) == Len(p) < Len(q) /\ StartsWith(q, p)

EventPath(e) == e[1]
EventDiff(e) == e[2]
NoPanic == \A i \in 1..Len(emitted) : emitted[i] # Panic

\* The positions of the events at path p.
EventsAt(p) == {i \in 1..Len(emitted) : EventPath(emitted[i]) = p}

\* C3: when a directory d is replaced by a file d, every Removed event for
\* the paths inside d is emitted before Added(d); base {d/x, d/y} against
\* other {file d} emits Removed(d/x), Removed(d/y), Added(d), in that order.
C3_RemovalsBeforeAdded ==
    /\ NoPanic
    /\ \A i \in 1..Len(emitted) :
          LET p == EventPath(emitted[i])
          IN  (IsTree(ValueAt(root1, p)) /\ EventDiff(emitted[i])[1] = "Added") =>
                 /\ \A q \in AllPaths :
                       (StrictlyBelow(q, p) /\ LeafAt(root1, q) # None /\ Matches(matcher, q)) =>
                           \E j \in 1..(i - 1) :
                               emitted[j] = <<q, Removed(LeafAt(root1, q))>>
                 /\ \A j \in (i + 1)..Len(emitted) :
                       ~StrictlyBelow(EventPath(emitted[j]), p)
    /\ \A d, x, y \in Names : \A a, b, c \in DiffLeaves :
          (/\ x < y
           /\ root1 = (d :> TreeValue(x :> a @@ y :> b))
           /\ root2 = (d :> c)
           /\ matcher = EverythingMatcher
           /\ exhausted) =>
              emitted = << <<(<<d, x>>), Removed(a)>>,
                           <<(<<d, y>>), Removed(b)>>,
                           <<(<<d>>), Added(c)>> >>

\* C3 witness: the diff of {d/x, d/y} against {file d} has run to its end.
C3_Witness ==
    /\ exhausted
    /\ root1 = (1 :> TreeValue(1 :> FileValue(1, FALSE) @@ 2 :> FileValue(2, FALSE)))
    /\ root2 = (1 :> FileValue(1, FALSE))
    /\ Len(emitted) = 3
    /\ EventDiff(emitted[3])[1] = "Added"

\* C4: the events of one diff come in path order: of two events whose paths
\* part at some directory, the one with the smaller basename there comes
\* first (a subdirectory is drained before the next sibling), and when a
\* non-tree entry p is replaced by a directory, Removed(p) comes before every
\* event below p.
C4_EmissionOrder ==
    /\ NoPanic
    /\ \A i, j \in 1..Len(emitted) :
          i < j =>
             LET pi == EventPath(emitted[i])
                 pj == EventPath(emitted[j])
             IN  \A k \in 1..Min(Len(pi), Len(pj)) :
                    (SubSeq(pi, 1, k - 1) = SubSeq(pj, 1, k - 1) /\ pi[k] # pj[k]) =>
                        pi[k] < pj[k]
    /\ \A j \in 1..Len(emitted) : \A p \in AllPaths :
          (/\ StrictlyBelow(EventPath(emitted[j]), p)
           /\ LeafAt(root1, p) # None
           /\ Matches(matcher, p)) =>
              \E i \in 1..(j - 1) : emitted[i] = <<p, Removed(LeafAt(root1, p))>>

\* C4 witness: events under the first entry, then the removal of a file that
\* became a directory, then events inside that directory.
C4_Witness ==
    /\ exhausted
    /\ Len(emitted) = 5
    /\ EventPath(emitted[1]) = <<1, 1>>
    /\ EventPath(emitted[2]) = <<1, 2>>
    /\ emitted[3] = <<(<<2>>), Removed(FileValue(1, FALSE))>>
    /\ EventPath(emitted[4]) = <<2, 1>>
    /\ EventPath(emitted[5]) = <<2, 2>>

\* The event the diff of a against b owes at path p, NoItem when it owes none.
ExpectedEvent(a, b, p) ==
    LET old == LeafAt(a, p)
        new == LeafAt(b, p)
    IN  IF old = new THEN NoItem
        ELSE IF new = None THEN <<p, Removed(old)>>
        ELSE IF old = None THEN <<p, Added(new)>>
        ELSE <<p, Modified(old, new)>>

\* C5: with the match-everything matcher an event is emitted at p exactly
\* when the non-tree value at p differs, it is the Removed, Added or Modified
\* the two values call for, no path has two events, and equal snapshots diff
\* to nothing.
C5_DiffIsExact ==
    matcher = EverythingMatcher =>
        /\ NoPanic
        /\ \A i \in 1..Len(emitted) :
              emitted[i] = ExpectedEvent(root1, root2, EventPath(emitted[i]))
        /\ \A p \in AllPaths : Cardinality(EventsAt(p)) <= 1
        /\ exhausted =>
              \A p \in AllPaths :
                  ExpectedEvent(root1, root2, p) # NoItem => EventsAt(p) # {}
        /\ (exhausted /\ root1 = root2) => emitted = <<>>

\* C5 witness: a finished diff with a removal, an addition and a modification,
\* next to a path whose file is the same on both sides.
C5_Witness ==
    /\ exhausted
    /\ matcher = EverythingMatcher
    /\ \E i, j, k \in 1..Len(emitted) :
          /\ EventDiff(emitted[i])[1] = "Removed"
          /\ EventDiff(emitted[j])[1] = "Added"
          /\ EventDiff(emitted[k])[1] = "Modified"
    /\ \E p \in AllPaths :
          LeafAt(root1, p) # None /\ LeafAt(root1, p) = LeafAt(root2, p)

----------------------------------------------------------------------------
(* The store, as far as the merge uses it *)

\* Store::empty_tree_id()
EmptyTreeId == EmptyTreeData

\* Store::write_tree(dir, tree) of a content-addressed store: the id of the
\* entry table.
WriteTreeId(data) == data

\* Store::read_conflict(path, id) / Store::write_conflict(path, conflict)
ReadConflict(id) == id
WriteConflictId(conflict) == conflict

\* Store::read_file(path, id) / Store::write_file(path, contents)
ReadFile(id) == id
WriteFileId(content) == content

\* What a call has written to the store, in order.
TreeWrite(dir, data) == <<"tree", dir, data>>
FileWrite(path, content) == <<"file", path, content>>
ConflictWrite(path, conflict) == <<"conflict", path, conflict>>

\* backend::Tree::remove(name) and backend::Tree::set(name, value)
RemoveEntry(data, name) == [n \in (DOMAIN data) \ {name} |-> data[n]]
SetEntry(data, name, value) ==
    [n \in (DOMAIN data) \cup {name} |-> IF n = name THEN value ELSE data[n]]

\* backend::Conflict { removes, adds }; a ConflictTerm is its value.
Conflict(removes, adds) == [removes |-> removes, adds |-> adds]

\* Vec::remove(i), i counted from 1 here.
RemoveAt(s, i) == SubSeq(s, 1, i - 1) \o SubSeq(s, i + 1, Len(s))

----------------------------------------------------------------------------
(* files::merge *)

\* A file content is a sequence of lines.  One line merges to the side that
\* is left once equal removed and added lines are cancelled, or to the line
\* all sides agree on; else the line is in conflict.
RECURSIVE CancelLines(_, _)
CancelLines(removes, adds) ==
    IF adds = <<>> THEN <<removes, adds>>
    ELSE LET hits == {i \in 1..Len(removes) : removes[i] = adds[1]}
         IN  IF hits = {}
             THEN LET r == CancelLines(removes, Tail(adds))
                  IN  <<r[1], <<adds[1]>> \o r[2]>>
             ELSE CancelLines(RemoveAt(removes, CHOOSE i \in hits : TRUE), Tail(adds))

LineMerge(removes, adds) ==
    LET r == CancelLines(removes, adds)
    IN  IF r[1] = <<>> /\ Len(r[2]) = 1 THEN <<"Resolved", r[2][1]>>
        ELSE IF \A i \in 1..Len(adds) : adds[i] = adds[1] THEN <<"Resolved", adds[1]>>
        ELSE <<"Conflict">>

\* files::merge(removes, adds) on contents of equally many lines.
FilesMerge(removes, adds) ==
    LET n     == Len(adds[1])
        lines == [l \in 1..n |->
                    LineMerge([i \in 1..Len(removes) |-> removes[i][l]],
                              [i \in 1..Len(adds) |-> adds[i][l]])]
    IN  IF \A l \in 1..n : lines[l][1] = "Resolved"
        THEN <<"Resolved", [l \in 1..n |-> lines[l][2]]>>
        ELSE <<"Conflict">>

----------------------------------------------------------------------------
(* simplify_conflict *)

\* tree_value_to_conflict
TreeValueToConflict(value) ==
    IF value[1] = "Conflict" THEN ReadConflict(value[2])
    ELSE Conflict(<<>>, <<value>>)

\* simplify_conflict, first loop: the adds, a nested conflict moved in as it is.
RECURSIVE ExpandAdds(_, _)
ExpandAdds(terms, acc) ==
    IF terms = <<>> THEN acc
    ELSE LET term == terms[1]
         IN  IF term[1] = "Conflict"
             THEN LET c == TreeValueToConflict(term)
                  IN  ExpandAdds(Tail(terms),
                                 Conflict(acc.removes \o c.removes, acc.adds \o c.adds))
             ELSE ExpandAdds(Tail(terms), Conflict(acc.removes, Append(acc.adds, term)))

\* The second loop pushing every remove as it is, a Conflict term too.
RECURSIVE ExpandRemoves_NestedKept(_, _)
ExpandRemoves_NestedKept(terms, acc) ==
    IF terms = <<>> THEN acc
    ELSE ExpandRemoves_NestedKept(Tail(terms),
                                  Conflict(Append(acc.removes, terms[1]), acc.adds))

\* simplify_conflict, second loop: the removes, a nested conflict moved in
\* with its signs inverted.
RECURSIVE ExpandRemoves(_, _)
ExpandRemoves(terms, acc) ==
    IF terms = <<>> THEN acc
    ELSE LET term == terms[1]
         IN  IF term[1] = "Conflict"
             THEN LET c == TreeValueToConflict(term)
                  IN  ExpandRemoves(Tail(terms),
                                    Conflict(acc.removes \o c.adds, acc.adds \o c.removes))
             ELSE ExpandRemoves(Tail(terms), Conflict(Append(acc.removes, term), acc.adds))

\* The third loop with add_index left one too far after a pair is dropped.
RECURSIVE CancelPairs_IndexNotRestored(_, _, _)
CancelPairs_IndexNotRestored(new_adds, new_removes, add_index) ==
    IF add_index >= Len(new_adds) THEN Conflict(new_removes, new_adds)
    ELSE LET add  == new_adds[add_index + 1]
             hits == {i \in 1..Len(new_removes) : new_removes[i] = add}
         IN  IF hits = {}
             THEN CancelPairs_IndexNotRestored(new_adds, new_removes, add_index + 1)
             ELSE CancelPairs_IndexNotRestored(
                      RemoveAt(new_adds, add_index + 1),
                      RemoveAt(new_removes, CHOOSE i \in hits : \A j \in hits : i <= j),
                      add_index + 1)

\* The third loop dropping the add of a matching pair and keeping the remove.
RECURSIVE CancelPairs_RemoveKept(_, _, _)
CancelPairs_RemoveKept(new_adds, new_removes, add_index) ==
    IF add_index >= Len(new_adds) THEN Conflict(new_removes, new_adds)
    ELSE LET add  == new_adds[add_index + 1]
             hits == {i \in 1..Len(new_removes) : new_removes[i] = add}
         IN  IF hits = {}
             THEN CancelPairs_RemoveKept(new_adds, new_removes, add_index + 1)
             ELSE CancelPairs_RemoveKept(RemoveAt(new_adds, add_index + 1),
                                         new_removes, add_index)

\* simplify_conflict, third loop: add_index (counted from 0) walks the adds;
\* an add with an equal remove is dropped together with the first such remove.
RECURSIVE CancelPairs(_, _, _)
CancelPairs(new_adds, new_removes, add_index) ==
    IF add_index >= Len(new_adds) THEN Conflict(new_removes, new_adds)
    ELSE LET add  == new_adds[add_index + 1]
             hits == {i \in 1..Len(new_removes) : new_removes[i] = add}
         IN  IF hits = {}
             THEN CancelPairs(new_adds, new_removes, add_index + 1)
             ELSE CancelPairs(RemoveAt(new_adds, add_index + 1),
                              RemoveAt(new_removes, CHOOSE i \in hits : \A j \in hits : i <= j),
                              add_index)

\* simplify_conflict without the cancellation of matching pairs.
SimplifyConflict_NoCancel(conflict) ==
    ExpandRemoves(conflict.removes, ExpandAdds(conflict.adds, Conflict(<<>>, <<>>)))

\* simplify_conflict
SimplifyConflict(conflict) ==
    LET expanded == ExpandRemoves(conflict.removes,
                                  ExpandAdds(conflict.adds, Conflict(<<>>, <<>>)))
    IN  CancelPairs(expanded.adds, expanded.removes, 0)

----------------------------------------------------------------------------
(* try_resolve_file_conflict *)

IsFile(v) == v[1] = "File"

\* The number of terms that are files with the given executable bit.
CountFiles(terms, executable) ==
    Cardinality({i \in 1..Len(terms) : IsFile(terms[i]) /\ terms[i][3] = executable})

\* The choice of the executable bit with a strict test of the regular delta.
Executable_RegularBelowZero(conflict) ==
    LET exec_delta    == CountFiles(conflict.adds, TRUE) - CountFiles(conflict.removes, TRUE)
        regular_delta == CountFiles(conflict.adds, FALSE) - CountFiles(conflict.removes, FALSE)
    IN  IF exec_delta > 0 /\ regular_delta < 0 THEN <<"Some", TRUE>>
        ELSE IF regular_delta > 0 /\ exec_delta <= 0 THEN <<"Some", FALSE>>
        ELSE None

\* try_resolve_file_conflict, the choice of the executable bit of a conflict of
\* files from the two deltas: <<"Some", executable>>, or None when the code
\* is unable to determine it.
Executable(conflict) ==
    LET exec_delta    == CountFiles(conflict.adds, TRUE) - CountFiles(conflict.removes, TRUE)
        regular_delta == CountFiles(conflict.adds, FALSE) - CountFiles(conflict.removes, FALSE)
    IN  IF exec_delta > 0 /\ regular_delta <= 0 THEN <<"Some", TRUE>>
        ELSE IF regular_delta > 0 /\ exec_delta <= 0 THEN <<"Some", FALSE>>
        ELSE None

\* try_resolve_file_conflict: <<"Some", content, executable>> or None.
TryResolveFileConflict(conflict) ==
    IF Len(conflict.adds) # Len(conflict.removes) + 1 THEN None
    ELSE IF \E i \in 1..Len(conflict.removes) : ~IsFile(conflict.removes[i]) THEN None
    ELSE IF \E i \in 1..Len(conflict.adds) : ~IsFile(conflict.adds[i]) THEN None
    ELSE
    LET executable       == Executable(conflict)
        removed_contents == [i \in 1..Len(conflict.removes) |-> ReadFile(conflict.removes[i][2])]
        added_contents   == [i \in 1..Len(conflict.adds) |-> ReadFile(conflict.adds[i][2])]
        merge_result     == FilesMerge(removed_contents, added_contents)
    IN
    IF executable = None
    THEN None       \* unable to determine whether the result is executable
    ELSE IF merge_result[1] = "Resolved"
    THEN <<"Some", merge_result[2], executable[2]>>
    ELSE None

----------------------------------------------------------------------------
(* merge_trees and merge_tree_value *)

\* maybe_tree_id: the id of a directory, the empty tree's id for a missing
\* entry, None for anything else.
MaybeTreeId(value) ==
    IF IsTree(value) THEN <<"Some", value[2]>>
    ELSE IF value = None THEN <<"Some", EmptyTreeId>>
    ELSE None

\* The first shortcut of merge_trees returning side 1.
MergeShortcut_FirstReturnsSide1(side1_tree, base_tree, side2_tree) ==
    IF base_tree.id = side1_tree.id THEN <<"Some", side1_tree.id>>
    ELSE IF base_tree.id = side2_tree.id \/ side1_tree.id = side2_tree.id
    THEN <<"Some", side1_tree.id>>
    ELSE None

\* merge_trees without the shortcut for base = side2.
MergeShortcut_NoSecond(side1_tree, base_tree, side2_tree) ==
    IF base_tree.id = side1_tree.id THEN <<"Some", side2_tree.id>>
    ELSE None

\* merge_trees, the shortcuts: the id returned without merging, None when
\* neither applies.
MergeShortcut(side1_tree, base_tree, side2_tree) ==
    IF base_tree.id = side1_tree.id THEN <<"Some", side2_tree.id>>
    ELSE IF base_tree.id = side2_tree.id \/ side1_tree.id = side2_tree.id
    THEN <<"Some", side1_tree.id>>
    ELSE None

\* diff_entries(tree1, tree2), collected: every item of the entry diff.
RECURSIVE DiffEntries(_, _)
DiffEntries(it1, it2) ==
    LET e == TreeEntryDiffNext(it1, it2)
    IN  IF e.item = NoItem THEN <<>>
        ELSE <<e.item>> \o DiffEntries(e.it1, e.it2)

\* The seeded conflict without the value of side 2.
SeedConflict_Side2Dropped(maybe_base, maybe_side1, maybe_side2) ==
    Conflict(IF maybe_base # None THEN <<maybe_base>> ELSE <<>>,
             IF maybe_side1 # None THEN <<maybe_side1>> ELSE <<>>)

\* The conflict merge_tree_value seeds: base removed, the sides added.
SeedConflict(maybe_base, maybe_side1, maybe_side2) ==
    Conflict(IF maybe_base # None THEN <<maybe_base>> ELSE <<>>,
             (IF maybe_side1 # None THEN <<maybe_side1>> ELSE <<>>)
                 \o (IF maybe_side2 # None THEN <<maybe_side2>> ELSE <<>>))

\* A merge outcome: the value or id, the objects written to the store, and
\* the conflicts simplify_conflict returned on the way, in order.
RECURSIVE MergeTrees(_, _, _)
RECURSIVE MergeEntries(_, _, _)
RECURSIVE MergeTreeValue(_, _, _, _, _)

\* merge_tree_value
MergeTreeValue(dir, basename, maybe_base, maybe_side1, maybe_side2) ==
    LET base_tree_id  == MaybeTreeId(maybe_base)
        side1_tree_id == MaybeTreeId(maybe_side1)
        side2_tree_id == MaybeTreeId(maybe_side2)
    IN
    IF base_tree_id # None /\ side1_tree_id # None /\ side2_tree_id # None
    THEN LET subdir == Append(dir, basename)
             m == MergeTrees(GetTree(subdir, side1_tree_id[2]),
                             GetTree(subdir, base_tree_id[2]),
                             GetTree(subdir, side2_tree_id[2]))
         IN  [value |-> IF m.id = EmptyTreeId THEN None ELSE TreeValue(m.id),
              writes |-> m.writes,
              simplified |-> m.simplified]
    ELSE LET filename == Append(dir, basename)
             conflict == SimplifyConflict(SeedConflict(maybe_base, maybe_side1, maybe_side2))
             resolved == TryResolveFileConflict(conflict)
         IN  IF conflict.adds = <<>>
             THEN [value |-> None, writes |-> <<>>, simplified |-> <<conflict>>]
             ELSE IF conflict.removes = <<>> /\ Len(conflict.adds) = 1
             THEN [value |-> conflict.adds[1], writes |-> <<>>, simplified |-> <<conflict>>]
             ELSE IF resolved # None
             THEN [value |-> FileValue(WriteFileId(resolved[2]), resolved[3]),
                   writes |-> <<FileWrite(filename, resolved[2])>>,
                   simplified |-> <<conflict>>]
             ELSE [value |-> ConflictValue(WriteConflictId(conflict)),
                   writes |-> <<ConflictWrite(filename, conflict)>>,
                   simplified |-> <<conflict>>]

\* The loop of merge_trees leaving side 1's entry where only side 2 changed.
RECURSIVE MergeEntries_Side2NotTaken(_, _, _)
MergeEntries_Side2NotTaken(side1_tree, items, acc) ==
    IF items = <<>> THEN acc
    ELSE
    LET basename    == items[1][1]
        maybe_base  == items[1][2]
        maybe_side2 == items[1][3]
        maybe_side1 == EntryValue(side1_tree.data, basename)
    IN
    IF maybe_side1 = maybe_base \/ maybe_side1 = maybe_side2
    THEN MergeEntries_Side2NotTaken(side1_tree, Tail(items), acc)
    ELSE LET r == MergeTreeValue(side1_tree.dir, basename,
                                 maybe_base, maybe_side1, maybe_side2)
         IN  MergeEntries_Side2NotTaken(side1_tree, Tail(items),
                [new_tree |-> IF r.value = None THEN RemoveEntry(acc.new_tree, basename)
                              ELSE SetEntry(acc.new_tree, basename, r.value),
                 writes |-> acc.writes \o r.writes,
                 simplified |-> acc.simplified \o r.simplified])

\* merge_trees, the loop over diff_entries(base_tree, side2_tree): acc holds
\* new_tree, the writes and the simplified conflicts so far.
MergeEntries(side1_tree, items, acc) ==
    IF items = <<>> THEN acc
    ELSE
    LET basename    == items[1][1]
        maybe_base  == items[1][2]
        maybe_side2 == items[1][3]
        maybe_side1 == EntryValue(side1_tree.data, basename)
    IN
    IF maybe_side1 = maybe_base
    THEN \* side 1 is unchanged: use the value from side 2
         MergeEntries(side1_tree, Tail(items),
            [acc EXCEPT !.new_tree = IF maybe_side2 = None THEN RemoveEntry(@, basename)
                                     ELSE SetEntry(@, basename, maybe_side2)])
    ELSE IF maybe_side1 = maybe_side2
    THEN \* both sides changed in the same way
         MergeEntries(side1_tree, Tail(items), acc)
    ELSE \* the two sides changed in different ways
         LET r == MergeTreeValue(side1_tree.dir, basename,
                                 maybe_base, maybe_side1, maybe_side2)
         IN  MergeEntries(side1_tree, Tail(items),
                [new_tree |-> IF r.value = None THEN RemoveEntry(acc.new_tree, basename)
                              ELSE SetEntry(acc.new_tree, basename, r.value),
                 writes |-> acc.writes \o r.writes,
                 simplified |-> acc.simplified \o r.simplified])

\* merge_trees(side1_tree, base_tree, side2_tree)
MergeTrees(side1_tree, base_tree, side2_tree) ==
    LET shortcut == MergeShortcut(side1_tree, base_tree, side2_tree)
    IN
    IF shortcut # None
    THEN [id |-> shortcut[2], writes |-> <<>>, simplified |-> <<>>]
    ELSE LET r == MergeEntries(side1_tree,
                               DiffEntries(TreeEntries(base_tree.data),
                                           TreeEntries(side2_tree.data)),
                               [new_tree |-> side1_tree.data,
                                writes |-> <<>>, simplified |-> <<>>])
         IN  [id |-> WriteTreeId(r.new_tree),
              writes |-> Append(r.writes, TreeWrite(base_tree.dir, r.new_tree)),
              simplified |-> r.simplified]

----------------------------------------------------------------------------
(* Bounds and input sets of the merge specification *)

MaxMergeEntries == 2

\* File contents of two lines: B and C each change one line of A, D changes
\* the line B changes, in another way.
ContentA == <<0, 0>>
ContentB == <<1, 0>>
ContentC == <<0, 1>>
ContentD == <<2, 0>>

FileA == FileValue(ContentA, FALSE)
FileB == FileValue(ContentB, FALSE)
FileC == FileValue(ContentC, FALSE)
FileD == FileValue(ContentD, FALSE)
ExecA == FileValue(ContentA, TRUE)
LinkS == SymlinkValue(1)
\* The conflict a rebase of C from A onto B leaves: {+B, -A, +C}.
ConflictBAC == ConflictValue(Conflict(<<FileA>>, <<FileB, FileC>>))

MergeLeaves == {FileA, FileB, FileC, FileD, ExecA, LinkS, ConflictBAC}
MergeSubTrees == UNION {[D -> {FileA, FileB, FileC}] : D \in SUBSET {1}}
MergeRoots ==
    {t \in UNION {[D -> MergeLeaves \cup {TreeValue(u) : u \in MergeSubTrees}] :
                     D \in SUBSET Names} :
        /\ 2 \in DOMAIN t => t[2] = FileA
        /\ TreeSize(t) <= MaxMergeEntries}

----------------------------------------------------------------------------
(* The merge state machine *)

MergeInit ==
    /\ side1 \in MergeRoots
    /\ base \in MergeRoots
    /\ side2 \in MergeRoots
    /\ merged = NotCalled
    /\ swapped = NotCalled
    /\ IdxIdle
    /\ DiffIdle
    /\ ConflictIdle
    /\ CtxIdle
    /\ ResolveIdle

Outcome(m) ==
    [called |-> TRUE, id |-> m.id, writes |-> m.writes, simplified |-> m.simplified]

\* merge_trees(side1, base, side2)
DoMergeTrees ==
    /\ ~merged.called
    /\ merged' = Outcome(MergeTrees(GetTree(RootPath, side1), GetTree(RootPath, base),
                                    GetTree(RootPath, side2)))
    /\ UNCHANGED <<side1, base, side2, swapped>>
    /\ UNCHANGED nonMergeVars

\* merge_trees(side2, base, side1): the same merge with the sides exchanged
DoMergeTreesSwapped ==
    /\ ~swapped.called
    /\ swapped' = Outcome(MergeTrees(GetTree(RootPath, side2), GetTree(RootPath, base),
                                     GetTree(RootPath, side1)))
    /\ UNCHANGED <<side1, base, side2, merged>>
    /\ UNCHANGED nonMergeVars

MergeNext ==
    \/ DoMergeTrees
    \/ DoMergeTreesSwapped

SpecMerge == MergeInit /\ [][MergeNext]_vars

----------------------------------------------------------------------------
(* Properties of the merge *)

\* C6 as stated: merge(a, a, b) returns the id of b, and merge(a, b, b)
\* returns the id of b, the arguments being (side1, base, side2).
C6_AsStated ==
    merged.called =>
        /\ side1 = base => merged.id = side2
        /\ base = side2 => merged.id = side2

\* C6 amended: merge(a, a, b) returns the id of b, and merge(a, b, b)
\* returns the id of a.
C6_EqualSides ==
    merged.called =>
        /\ side1 = base => merged.id = side2
        /\ base = side2 => merged.id = side1

\* C6 witness: merge(a, b, b) with a different from b has returned a.
C6_Witness ==
    /\ merged.called
    /\ base = side2
    /\ side1 # base
    /\ merged.id = side1

\* C7: merge_trees returns side2's id and writes nothing when base and side1
\* have the same id; otherwise it returns side1's id and writes nothing when
\* base and side2, or side1 and side2, have the same id.
C7_Shortcuts ==
    merged.called =>
        /\ base = side1 => (merged.id = side2 /\ merged.writes = <<>>)
        /\ (base # side1 /\ (base = side2 \/ side1 = side2)) =>
              (merged.id = side1 /\ merged.writes = <<>>)

\* C7 witness: the second shortcut taken because the two sides are equal.
C7_Witness ==
    /\ merged.called
    /\ base # side1
    /\ base # side2
    /\ side1 = side2
    /\ merged.id = side1
    /\ merged.writes = <<>>

\* Whether a tree, its subdirectories included, holds a Conflict entry.
RECURSIVE HasConflictEntry(_)
HasConflictEntry(data) ==
    \E n \in DOMAIN data :
        \/ data[n][1] = "Conflict"
        \/ IsTree(data[n]) /\ HasConflictEntry(data[n][2])

\* A tree with the terms of every conflict taken as bags: what is left of it
\* when the order of the terms inside the conflict objects is disregarded.
RECURSIVE TermsAsBags(_)
TermsAsBags(data) ==
    [n \in DOMAIN data |->
        IF data[n][1] = "Conflict"
        THEN <<"Conflict", BagOfSeq(data[n][2].removes), BagOfSeq(data[n][2].adds)>>
        ELSE IF IsTree(data[n]) THEN TreeValue(TermsAsBags(data[n][2]))
        ELSE data[n]]

NoShortcut == base # side1 /\ base # side2 /\ side1 # side2

\* C8: merge_trees(side1, base, side2) and merge_trees(side2, base, side1)
\* return the same id when the result holds no Conflict entry, and otherwise
\* results that differ at most in the order of the terms inside conflicts.
C8_Symmetry ==
    (merged.called /\ swapped.called) =>
        /\ ~HasConflictEntry(merged.id) => merged.id = swapped.id
        /\ TermsAsBags(merged.id) = TermsAsBags(swapped.id)

\* C8 witness: both merges ran the main algorithm, merged file contents and
\* came to the same conflict-free tree.
C8_Witness ==
    /\ merged.called
    /\ swapped.called
    /\ NoShortcut
    /\ \E i \in 1..Len(merged.writes) : merged.writes[i][1] = "file"
    /\ ~HasConflictEntry(merged.id)
    /\ merged.id = swapped.id

\* A second case of C8: a conflict is written, its terms in the other order.
C8_ConflictCase ==
    /\ merged.called
    /\ swapped.called
    /\ \E i \in 1..Len(merged.writes) : merged.writes[i][1] = "conflict"
    /\ merged.id # swapped.id

\* C9: side1 = A, base = B, side2 = the stored conflict {+B, -A, +C}, that is
\* {+A, -B, +{+B, -A, +C}}, simplifies to adds = [C], removes = [], and the
\* path gets the plain value C; no conflict object is written.
C9_RebaseCancels ==
    (/\ merged.called
     /\ side1 = (1 :> FileA)
     /\ base = (1 :> FileB)
     /\ side2 = (1 :> ConflictBAC)) =>
        /\ merged.simplified = <<Conflict(<<>>, <<FileC>>)>>
        /\ merged.id = (1 :> FileC)
        /\ merged.writes = <<TreeWrite(RootPath, (1 :> FileC))>>

\* C9 witness: that merge has run.
C9_Witness ==
    /\ merged.called
    /\ side1 = (1 :> FileA)
    /\ base = (1 :> FileB)
    /\ side2 = (1 :> ConflictBAC)
    /\ Len(merged.simplified) = 1

----------------------------------------------------------------------------
(* simplify_conflict on its own: the conflicts it is given *)

\* The number of terms a conflict holds, those of the conflicts stored
\* behind its Conflict terms included.
RECURSIVE TermsSize(_)
TermsSize(terms) ==
    IF terms = <<>> THEN 0
    ELSE (IF Head(terms)[1] = "Conflict"
          THEN 1 + TermsSize(Head(terms)[2].removes) + TermsSize(Head(terms)[2].adds)
          ELSE 1)
         + TermsSize(Tail(terms))

ConflictSize(c) == TermsSize(c.removes) + TermsSize(c.adds)

MaxConflictSize == 4

\* The plain values of the terms.
PlainTerms == {FileA, FileB}

\* Stored conflicts whose terms are all plain.
FlatStored ==
    {Conflict(r, a) : r \in SeqsUpTo(PlainTerms, 1), a \in SeqsUpTo(PlainTerms, 1)}

\* Stored conflicts with a term that is itself a stored conflict.
NestedStored == {Conflict(<<>>, <<ConflictValue(c)>>) : c \in FlatStored}

ConflictTerms ==
    PlainTerms \cup {ConflictValue(c) : c \in FlatStored \cup NestedStored}

\* The term lists of up to two terms that hold n terms in all.
TermListsOfSize(n) == {t \in SeqsUpTo(ConflictTerms, 2) : TermsSize(t) = n}

GivenConflicts ==
    UNION {{Conflict(r, a) : r \in TermListsOfSize(i), a \in TermListsOfSize(j)} :
              <<i, j>> \in {x \in (0..MaxConflictSize) \X (0..MaxConflictSize) :
                                x[1] + x[2] <= MaxConflictSize}}

ConflictInit ==
    /\ given \in GivenConflicts
    /\ once = NotCalled
    /\ twice = NotCalled
    /\ IdxIdle
    /\ DiffIdle
    /\ MergeIdle
    /\ CtxIdle
    /\ ResolveIdle

\* simplify_conflict(store, path, given)
DoSimplifyConflict ==
    /\ ~once.called
    /\ once' = [called |-> TRUE, conflict |-> SimplifyConflict(given)]
    /\ UNCHANGED <<given, twice>>
    /\ UNCHANGED nonConflictVars

\* simplify_conflict(store, path, c) for the c the first call returned
DoSimplifyConflictAgain ==
    /\ once.called
    /\ ~twice.called
    /\ twice' = [called |-> TRUE, conflict |-> SimplifyConflict(once.conflict)]
    /\ UNCHANGED <<given, once>>
    /\ UNCHANGED nonConflictVars

ConflictNext ==
    \/ DoSimplifyConflict
    \/ DoSimplifyConflictAgain

SpecConflict == ConflictInit /\ [][ConflictNext]_vars

----------------------------------------------------------------------------
(* Properties of simplify_conflict *)

\* No term of the conflict is a Conflict value.
IsFlat(c) ==
    /\ \A i \in 1..Len(c.removes) : c.removes[i][1] # "Conflict"
    /\ \A i \in 1..Len(c.adds) : c.adds[i][1] # "Conflict"

\* The conflicts stored behind the Conflict terms of c are flat.
StoredAreFlat(c) ==
    /\ \A i \in 1..Len(c.removes) :
          c.removes[i][1] = "Conflict" => IsFlat(ReadConflict(c.removes[i][2]))
    /\ \A i \in 1..Len(c.adds) :
          c.adds[i][1] = "Conflict" => IsFlat(ReadConflict(c.adds[i][2]))

\* C10 as stated: for every conflict and every content of the conflict store,
\* simplify_conflict applied to its own output returns that output.
C10_AsStated ==
    twice.called => twice.conflict = once.conflict

\* C10 amended: when every conflict stored behind a term of the input is flat
\* (has no Conflict term itself), simplify_conflict applied to its own output
\* returns that output, adds and removes in the same order.
C10_FixedPoint ==
    (twice.called /\ StoredAreFlat(given)) => twice.conflict = once.conflict

\* C10 witness: an input with a stored conflict behind a term, which the
\* first call inlined and cancelled against, simplified a second time.
C10_Witness ==
    /\ twice.called
    /\ StoredAreFlat(given)
    /\ ~IsFlat(given)
    /\ Len(once.conflict.adds) + Len(once.conflict.removes) < ConflictSize(given) - 1
    /\ once.conflict.adds # <<>>
    /\ twice.conflict = once.conflict

\* C11 as stated: after simplify_conflict no term is a Conflict value, for
\* every input conflict and every conflict read from the store.
C11_AsStated ==
    once.called => IsFlat(once.conflict)

\* C11 amended: when every conflict stored behind a term of the input is
\* flat, no term of the output of simplify_conflict is a Conflict value.
C11_OutputIsFlat ==
    (once.called /\ StoredAreFlat(given)) => IsFlat(once.conflict)

\* C11 witness: an input with Conflict terms on both sides, the stored
\* conflicts flat, simplified to a flat conflict that still has terms.
C11_Witness ==
    /\ once.called
    /\ StoredAreFlat(given)
    /\ \E i \in 1..Len(given.adds) : given.adds[i][1] = "Conflict"
    /\ \E i \in 1..Len(given.removes) : given.removes[i][1] = "Conflict"
    /\ IsFlat(once.conflict)
    /\ once.conflict.adds # <<>>
    /\ once.conflict.removes # <<>>

----------------------------------------------------------------------------
(* IdPrefixContext: the repo it is given *)

\* Some order of the elements of a finite set.
RECURSIVE SeqOfSet(_)
SeqOfSet(S) ==
    IF S = {} THEN <<>>
    ELSE LET x == CHOOSE y \in S : TRUE
         IN  <<x>> \o SeqOfSet(S \ {x})

\* The elements of a set of ids in ascending order.
SortedIds(S) ==
    CHOOSE s \in {t \in [1..Cardinality(S) -> S] : Range(t) = S} :
        \A i \in 1..(Len(s) - 1) : BytesLess(s[i], s[i + 1])

\* The longest of a set of lengths, one digit at least.
LongestOr1(lens) == IF lens = {} THEN 1 ELSE CHOOSE m \in lens : \A l \in lens : l <= m

\* repo.index().resolve_prefix(prefix)
RepoResolveCommitPrefix(commits, prefix) ==
    LET ids == {c.id : c \in {d \in commits : PrefixMatches(prefix, d.id)}}
    IN  IF ids = {} THEN NoMatch
        ELSE IF Cardinality(ids) = 1 THEN SingleMatch(CHOOSE id \in ids : TRUE)
        ELSE AmbiguousMatch

\* repo.resolve_change_id_prefix(prefix)
RepoResolveChangeIdPrefix(commits, prefix) ==
    LET hit     == {d \in commits : PrefixMatches(prefix, d.change_id)}
        changes == {c.change_id : c \in hit}
    IN  IF changes = {} THEN NoMatch
        ELSE IF Cardinality(changes) = 1 THEN SingleMatch(SortedIds({c.id : c \in hit}))
        ELSE AmbiguousMatch

\* repo.index().shortest_unique_commit_id_prefix_len(commit_id)
RepoShortestUniqueCommitIdPrefixLen(commits, commit_id) ==
    LongestOr1({CommonHexLen(commit_id, c.id) + 1 : c \in {d \in commits : d.id # commit_id}})

\* repo.shortest_unique_change_id_prefix_len(change_id)
RepoShortestUniqueChangeIdPrefixLen(commits, change_id) ==
    LongestOr1({CommonHexLen(change_id, c.change_id) + 1 :
                    c \in {d \in commits : d.change_id # change_id}})

----------------------------------------------------------------------------
(* DisambiguationData and IdPrefixContext *)

\* IdPrefixContext::disambiguate_within: a scope whose revset evaluates to
\* the given commits, its cell unset.
ScopeOf(commits) == [some |-> TRUE, commits |-> commits]

\* The closure of DisambiguationData::indexes when it succeeds: the two
\* vectors pushed commit by commit, then IdIndex::from_vec of each.
BuildIndexes(commits) ==
    LET order         == SeqOfSet(commits)
        commit_id_vec == [i \in 1..Len(order) |-> <<order[i].id, order[i].id>>]
        change_id_vec == [i \in 1..Len(order) |-> <<order[i].change_id, order[i].id>>]
    IN  {[set |-> TRUE, commit_index |-> ci, change_index |-> chi] :
            ci \in FromVecResults(commit_id_vec), chi \in FromVecResults(change_id_vec)}

\* disambiguation_indexes running the closure on every call, the cell set or not.
DisambiguationIndexes_NoCache(sc, c) ==
    IF ~sc.some THEN {[cell |-> c, evaluated |-> FALSE, failed |-> FALSE]}
    ELSE {[cell |-> c, evaluated |-> TRUE, failed |-> TRUE]}
         \cup {[cell |-> ix, evaluated |-> TRUE, failed |-> FALSE] :
                  ix \in BuildIndexes(sc.commits)}

\* disambiguation_indexes keeping, when reading a commit fails, the indexes of
\* the commits read until then.
DisambiguationIndexes_FailureKeepsRead(sc, c) ==
    IF ~sc.some \/ c.set THEN {[cell |-> c, evaluated |-> FALSE, failed |-> FALSE]}
    ELSE {[cell |-> ix, evaluated |-> TRUE, failed |-> TRUE] :
             ix \in UNION {BuildIndexes(read) : read \in (SUBSET sc.commits) \ {sc.commits}}}
         \cup {[cell |-> Unset, evaluated |-> TRUE, failed |-> TRUE]}
         \cup {[cell |-> ix, evaluated |-> TRUE, failed |-> FALSE] :
                  ix \in BuildIndexes(sc.commits)}

\* disambiguation_indexes storing an empty pair of indexes in the cell when
\* the closure fails.
DisambiguationIndexes_FailureStored(sc, c) ==
    IF ~sc.some \/ c.set THEN {[cell |-> c, evaluated |-> FALSE, failed |-> FALSE]}
    ELSE {[cell |-> ix, evaluated |-> TRUE, failed |-> TRUE] : ix \in BuildIndexes({})}
         \cup {[cell |-> ix, evaluated |-> TRUE, failed |-> FALSE] :
                  ix \in BuildIndexes(sc.commits)}

\* IdPrefixContext::disambiguation_indexes with DisambiguationData::indexes:
\* the outcomes of one call.  Without a scope, or with the cell set, nothing
\* is evaluated.  Otherwise get_or_try_init runs the closure: it fails (the
\* cell stays unset, .ok() gives None) or it succeeds and the pair is stored.
\* The indexes the caller gets are those of the cell afterwards, if set.
DisambiguationIndexes(sc, c) ==
    IF ~sc.some \/ c.set THEN {[cell |-> c, evaluated |-> FALSE, failed |-> FALSE]}
    ELSE {[cell |-> Unset, evaluated |-> TRUE, failed |-> TRUE]}
         \cup {[cell |-> ix, evaluated |-> TRUE, failed |-> FALSE] :
                  ix \in BuildIndexes(sc.commits)}

CtxPanic == [kind |-> "panic", values |-> <<>>]

\* resolve_commit_prefix returning whatever the scope's index says.
CtxResolveCommitPrefix_ScopeDecides(indexes, commits, prefix) ==
    IF indexes.set
    THEN LET resolution == ResolvePrefix(indexes.commit_index, prefix)
         IN  IF resolution.kind = "SingleMatch"
             THEN SingleMatch(resolution.values[Len(resolution.values)])
             ELSE resolution
    ELSE RepoResolveCommitPrefix(commits, prefix)

\* IdPrefixContext::resolve_commit_prefix, indexes being what
\* disambiguation_indexes gave
CtxResolveCommitPrefix(indexes, commits, prefix) ==
    LET resolution == IF indexes.set THEN ResolvePrefix(indexes.commit_index, prefix)
                      ELSE NoMatch
    IN  IF indexes.set /\ resolution.kind = "SingleMatch"
        THEN IF Len(resolution.values) # 1 THEN CtxPanic
             ELSE SingleMatch(resolution.values[Len(resolution.values)])
        ELSE RepoResolveCommitPrefix(commits, prefix)

\* shortest_commit_prefix_len without the has_key test.
CtxShortestCommitPrefixLen_NoHasKey(indexes, commits, commit_id) ==
    IF indexes.set
    THEN ShortestUniquePrefixLen(indexes.commit_index, commit_id)
    ELSE RepoShortestUniqueCommitIdPrefixLen(commits, commit_id)

\* IdPrefixContext::shortest_commit_prefix_len
CtxShortestCommitPrefixLen(indexes, commits, commit_id) ==
    IF indexes.set /\ HasKey(indexes.commit_index, commit_id)
    THEN ShortestUniquePrefixLen(indexes.commit_index, commit_id)
    ELSE RepoShortestUniqueCommitIdPrefixLen(commits, commit_id)

\* IdPrefixContext::resolve_change_prefix
CtxResolveChangePrefix(indexes, commits, prefix) ==
    LET resolution == IF indexes.set THEN ResolvePrefix(indexes.change_index, prefix)
                      ELSE NoMatch
    IN  IF indexes.set /\ resolution.kind = "SingleMatch"
        THEN SingleMatch(resolution.values)
        ELSE RepoResolveChangeIdPrefix(commits, prefix)

\* IdPrefixContext::shortest_change_prefix_len
CtxShortestChangePrefixLen(indexes, commits, change_id) ==
    IF indexes.set /\ HasKey(indexes.change_index, change_id)
    THEN ShortestUniquePrefixLen(indexes.change_index, change_id)
    ELSE RepoShortestUniqueChangeIdPrefixLen(commits, change_id)

----------------------------------------------------------------------------
(* The IdPrefixContext state machine *)

MaxCommits == 3
MaxEvals == 2

CtxIdBytes == {0, 1, 16, 17}          \* hex 00, 01, 10, 11
CommitIds == {<<b>> : b \in CtxIdBytes}
ChangeIds == {<<0>>, <<1>>}
CtxHexStrings == SeqsUpTo(HexDigits, 2)

\* The repos: up to MaxCommits commits, no two with the same commit id.
Repos ==
    {r \in SUBSET [id : CommitIds, change_id : ChangeIds] :
        /\ Cardinality(r) <= MaxCommits
        /\ \A c, d \in r : c.id = d.id => c = d}

CtxInit ==
    /\ repo \in Repos
    /\ scope \in {NoScope} \cup {ScopeOf(commits) : commits \in SUBSET repo}
    /\ cell = Unset
    /\ evals = 0
    /\ builds = 0
    /\ ctxCall = CtxNoCall
    /\ ctxRet = <<>>
    /\ IdxIdle
    /\ DiffIdle
    /\ MergeIdle
    /\ ConflictIdle
    /\ ResolveIdle

\* What every call does first: disambiguation_indexes(repo).
UseIndexes(o) ==
    /\ o \in DisambiguationIndexes(scope, cell)
    /\ o.evaluated => evals < MaxEvals
    /\ cell' = o.cell
    /\ evals' = IF o.evaluated THEN evals + 1 ELSE evals
    /\ builds' = IF o.evaluated /\ o.cell.set THEN builds + 1 ELSE builds

\* IdPrefixContext::resolve_commit_prefix(repo, prefix)
DoCtxResolveCommitPrefix ==
    /\ ctxCall.op = "idle"
    /\ \E hex \in CtxHexStrings : \E o \in DisambiguationIndexes(scope, cell) :
          /\ UseIndexes(o)
          /\ ctxCall' = [op |-> "resolve_commit_prefix", arg |-> hex,
                         evaluated |-> o.evaluated, failed |-> o.failed]
          /\ ctxRet' = CtxResolveCommitPrefix(o.cell, repo, HexPrefix(hex))
    /\ UNCHANGED <<repo, scope>>
    /\ UNCHANGED nonCtxVars

\* IdPrefixContext::shortest_commit_prefix_len(repo, commit_id)
DoCtxShortestCommitPrefixLen ==
    /\ ctxCall.op = "idle"
    /\ \E c \in repo : \E o \in DisambiguationIndexes(scope, cell) :
          /\ UseIndexes(o)
          /\ ctxCall' = [op |-> "shortest_commit_prefix_len", arg |-> c.id,
                         evaluated |-> o.evaluated, failed |-> o.failed]
          /\ ctxRet' = CtxShortestCommitPrefixLen(o.cell, repo, c.id)
    /\ UNCHANGED <<repo, scope>>
    /\ UNCHANGED nonCtxVars

\* IdPrefixContext::resolve_change_prefix(repo, prefix)
DoCtxResolveChangePrefix ==
    /\ ctxCall.op = "idle"
    /\ \E hex \in CtxHexStrings : \E o \in DisambiguationIndexes(scope, cell) :
          /\ UseIndexes(o)
          /\ ctxCall' = [op |-> "resolve_change_prefix", arg |-> hex,
                         evaluated |-> o.evaluated, failed |-> o.failed]
          /\ ctxRet' = CtxResolveChangePrefix(o.cell, repo, HexPrefix(hex))
    /\ UNCHANGED <<repo, scope>>
    /\ UNCHANGED nonCtxVars

\* IdPrefixContext::shortest_change_prefix_len(repo, change_id)
DoCtxShortestChangePrefixLen ==
    /\ ctxCall.op = "idle"
    /\ \E c \in repo : \E o \in DisambiguationIndexes(scope, cell) :
          /\ UseIndexes(o)
          /\ ctxCall' = [op |-> "shortest_change_prefix_len", arg |-> c.change_id,
                         evaluated |-> o.evaluated, failed |-> o.failed]
          /\ ctxRet' = CtxShortestChangePrefixLen(o.cell, repo, c.change_id)
    /\ UNCHANGED <<repo, scope>>
    /\ UNCHANGED nonCtxVars

\* The caller takes the result.
CtxReturn ==
    /\ ctxCall.op # "idle"
    /\ ctxCall' = CtxNoCall
    /\ ctxRet' = <<>>
    /\ UNCHANGED <<repo, scope, cell, evals, builds>>
    /\ UNCHANGED nonCtxVars

CtxNext ==
    \/ DoCtxResolveCommitPrefix
    \/ DoCtxShortestCommitPrefixLen
    \/ DoCtxResolveChangePrefix
    \/ DoCtxShortestChangePrefixLen
    \/ CtxReturn

SpecCtx == CtxInit /\ [][CtxNext]_vars

----------------------------------------------------------------------------
(* Properties of IdPrefixContext *)

\* The commits of the scope whose commit id, or change id, starts with hex.
ScopeCommitHits(hex) == {c \in scope.commits : StartsWith(Hex(c.id), hex)}
ScopeChangeHits(hex) == {c \in scope.commits : StartsWith(Hex(c.change_id), hex)}

\* The scoped index is there and resolves hex to SingleMatch: the prefix is
\* not empty and the ids it matches in the scope are one id.
ScopedCommitSingle(hex) ==
    cell.set /\ hex # <<>> /\ Cardinality({c.id : c \in ScopeCommitHits(hex)}) = 1
ScopedChangeSingle(hex) ==
    cell.set /\ hex # <<>> /\ Cardinality({c.change_id : c \in ScopeChangeHits(hex)}) = 1

\* C12: resolve_commit_prefix and resolve_change_prefix return the scope's
\* result only when the scoped index resolves the prefix to SingleMatch; in
\* every other case (no scope, scoped NoMatch, scoped AmbiguousMatch, the
\* empty prefix) the result is what the global index returns for the prefix.
C12_ScopeThenGlobal ==
    /\ ctxCall.op = "resolve_commit_prefix" =>
          IF ScopedCommitSingle(ctxCall.arg)
          THEN \E c \in ScopeCommitHits(ctxCall.arg) : ctxRet = SingleMatch(c.id)
          ELSE ctxRet = RepoResolveCommitPrefix(repo, HexPrefix(ctxCall.arg))
    /\ ctxCall.op = "resolve_change_prefix" =>
          IF ScopedChangeSingle(ctxCall.arg)
          THEN /\ ctxRet.kind = "SingleMatch"
               /\ Range(ctxRet.values) = {c.id : c \in ScopeChangeHits(ctxCall.arg)}
               /\ Len(ctxRet.values) = Cardinality(ScopeChangeHits(ctxCall.arg))
          ELSE ctxRet = RepoResolveChangeIdPrefix(repo, HexPrefix(ctxCall.arg))

\* C12 witness: a prefix ambiguous in the repo that the scope resolves.
C12_Witness ==
    /\ ctxCall.op = "resolve_commit_prefix"
    /\ ScopedCommitSingle(ctxCall.arg)
    /\ RepoResolveCommitPrefix(repo, HexPrefix(ctxCall.arg)) = AmbiguousMatch
    /\ ctxRet.kind = "SingleMatch"

\* A second case of C12: the scope is built and has no match, the repo has one.
C12_DelegatedCase ==
    /\ ctxCall.op = "resolve_change_prefix"
    /\ cell.set
    /\ ctxCall.arg # <<>>
    /\ ScopeChangeHits(ctxCall.arg) = {}
    /\ ctxRet.kind = "SingleMatch"

\* The first n hex digits of an id.
FirstHex(id, n) == SubSeq(Hex(id), 1, n)

\* C13: the first shortest_commit_prefix_len(c) hex digits of a commit id c of
\* the repo are resolved by resolve_commit_prefix to SingleMatch(c), and the
\* first shortest_change_prefix_len(x) digits of a change id x of the repo by
\* resolve_change_prefix to a SingleMatch of commits of that change, whatever
\* disambiguation_indexes does in the resolving call.
C13_LengthResolvesBack ==
    /\ ctxCall.op = "shortest_commit_prefix_len" =>
          /\ ctxRet \in 1..Len(Hex(ctxCall.arg))
          /\ \A o \in DisambiguationIndexes(scope, cell) :
                CtxResolveCommitPrefix(o.cell, repo, HexPrefix(FirstHex(ctxCall.arg, ctxRet)))
                    = SingleMatch(ctxCall.arg)
    /\ ctxCall.op = "shortest_change_prefix_len" =>
          /\ ctxRet \in 1..Len(Hex(ctxCall.arg))
          /\ \A o \in DisambiguationIndexes(scope, cell) :
                LET r == CtxResolveChangePrefix(o.cell, repo,
                                                HexPrefix(FirstHex(ctxCall.arg, ctxRet)))
                IN  /\ r.kind = "SingleMatch"
                    /\ r.values # <<>>
                    /\ \A i \in 1..Len(r.values) :
                          [id |-> r.values[i], change_id |-> ctxCall.arg] \in repo

\* C13 witness: a commit of the scope whose scoped length is shorter than the
\* repo's, and the scope resolves that shorter prefix to it.
C13_Witness ==
    /\ ctxCall.op = "shortest_commit_prefix_len"
    /\ cell.set
    /\ ctxRet < RepoShortestUniqueCommitIdPrefixLen(repo, ctxCall.arg)
    /\ CtxResolveCommitPrefix(cell, repo, HexPrefix(FirstHex(ctxCall.arg, ctxRet)))
          = SingleMatch(ctxCall.arg)

\* C14: the pair of scope indexes is materialized at most once: once the cell
\* is set, every call leaves the pair as it is and does not resolve or
\* evaluate the revset again.
C14_BuiltOnce ==
    [][/\ cell.set => (cell' = cell /\ evals' = evals /\ builds' = builds)
       /\ builds' <= 1
       /\ (builds' = 1) = cell'.set]_vars

\* C14 witness: a call made with the pair already stored, which evaluated
\* nothing and answered from the scope.
C14_Witness ==
    /\ ctxCall.op = "resolve_commit_prefix"
    /\ ~ctxCall.evaluated
    /\ cell.set
    /\ builds = 1
    /\ evals = 1
    /\ ctxRet.kind = "SingleMatch"
    /\ RepoResolveCommitPrefix(repo, HexPrefix(ctxCall.arg)) = AmbiguousMatch

\* What a context without a scope answers to the call: the repo's answer.
GlobalAnswer ==
    IF ctxCall.op = "resolve_commit_prefix"
    THEN RepoResolveCommitPrefix(repo, HexPrefix(ctxCall.arg))
    ELSE IF ctxCall.op = "resolve_change_prefix"
    THEN RepoResolveChangeIdPrefix(repo, HexPrefix(ctxCall.arg))
    ELSE IF ctxCall.op = "shortest_commit_prefix_len"
    THEN RepoShortestUniqueCommitIdPrefixLen(repo, ctxCall.arg)
    ELSE RepoShortestUniqueChangeIdPrefixLen(repo, ctxCall.arg)

\* C15: when building the scope indexes fails, each of the four operations
\* returns what a context with no scope returns: the repo's answer, which is
\* a resolution or a length, never an error.
C15_FailureIsNoScope ==
    (ctxCall.op # "idle" /\ ctxCall.failed) => ctxRet = GlobalAnswer

\* C15 witness: the build failed in a call whose scope, had it been built,
\* would have given another answer than the repo's.
C15_Witness ==
    /\ ctxCall.op = "shortest_commit_prefix_len"
    /\ ctxCall.failed
    /\ ctxRet = GlobalAnswer
    /\ \E ix \in BuildIndexes(scope.commits) :
          CtxShortestCommitPrefixLen(ix, repo, ctxCall.arg) < ctxRet

----------------------------------------------------------------------------
(* The recursive diff under any matcher and a store that may fail *)

MaxEnvEntries == 2

EnvPaths == UNION {[1..n -> Names] : n \in 1..2}

EnvMatchers ==
    {EverythingMatcher}
    \cup {SetsMatcher(matched, visited) :
            matched \in {EnvPaths, {<<1>>}, {<<1, 1>>, <<2>>}, {}},
            visited \in SUBSET {RootPath, <<1>>}}

EnvRoots ==
    {t \in TablesOver(DiffLeaves \cup {TreeValue(u) : u \in DiffSubTrees}) :
        TreeSize(t) <= MaxEnvEntries}

\* The ids of the subdirectories of a root.
SubTreeIds(data) == {data[n][2] : n \in {k \in DOMAIN data : IsTree(data[k])}}

DiffEnvInit ==
    /\ root1 \in EnvRoots
    /\ root2 \in EnvRoots
    /\ matcher \in EnvMatchers
    /\ unreadable \in SUBSET (SubTreeIds(root1) \cup SubTreeIds(root2))
    /\ stack = NewTreeDiffStack(matcher, RootPath,
                                GetTree(RootPath, root1), GetTree(RootPath, root2))
    /\ emitted = <<>>
    /\ exhausted = FALSE
    /\ IdxIdle
    /\ MergeIdle
    /\ ConflictIdle
    /\ CtxIdle
    /\ ResolveIdle

SpecDiffEnv == DiffEnvInit /\ [][DiffNext]_vars

----------------------------------------------------------------------------
(* Properties of the recursive diff under a matcher and a failing store *)

IsEvent(e) == e # Panic /\ e # UnwrapPanic

\* The directories a path lies strictly below, the root included.
DirsAbove(p) == {SubSeq(p, 1, n) : n \in 0..(Len(p) - 1)}

\* next() has returned None, and nothing before that was a panic.
Completed == exhausted /\ \A i \in 1..Len(emitted) : IsEvent(emitted[i])

\* C16 as stated: a store failure met while the recursive diff loads a
\* subtree is surfaced as an error value from next(); known_sub_tree
\* propagates the BackendError and the process does not abort.
C16_AsStated ==
    \A i \in 1..Len(emitted) : emitted[i] # UnwrapPanic

\* A directory changed to or from a non-tree value at path p.
TreeVersusNonTree(p) ==
    LET a == ValueAt(root1, p)
        b == ValueAt(root2, p)
    IN  \/ IsTree(a) /\ ~IsTree(b) /\ b # None
        \/ ~IsTree(a) /\ a # None /\ IsTree(b)

\* C19: the recursive diff emits no event at a path the matcher does not
\* match, and none strictly below a directory (the root included) that the
\* matcher does not visit; the event at the path of a tree-versus-non-tree
\* change is emitted when the matcher matches it, whether or not that
\* directory is visited.
C19_MatcherRespected ==
    /\ \A i \in 1..Len(emitted) :
          IsEvent(emitted[i]) =>
              /\ Matches(matcher, EventPath(emitted[i]))
              /\ \A d \in DirsAbove(EventPath(emitted[i])) : VisitsDir(matcher, d)
    /\ Completed =>
          \A p \in EnvPaths :
              (/\ TreeVersusNonTree(p)
               /\ Matches(matcher, p)
               /\ \A d \in DirsAbove(p) : VisitsDir(matcher, d)) =>
                  \E i \in 1..Len(emitted) : EventPath(emitted[i]) = p

\* C19 witness: a directory with a matched file in it replaced by a file; the
\* matcher matches both paths and does not visit the directory: the diff is
\* the one event at the directory's path.
C19_Witness ==
    /\ Completed
    /\ Len(emitted) = 1
    /\ \E p \in EnvPaths :
          /\ Len(p) = 1
          /\ TreeVersusNonTree(p)
          /\ ~VisitsDir(matcher, p)
          /\ EventPath(emitted[1]) = p
          /\ \E n \in Names :
                /\ Matches(matcher, Append(p, n))
                /\ LeafAt(root1, Append(p, n)) # LeafAt(root2, Append(p, n))

----------------------------------------------------------------------------
(* IdIndex on the ids of the shortest-unique-prefix scenario *)

IdAb   == <<171>>          \* hex ab
IdAcd0 == <<172, 208>>     \* hex acd0
IdA0   == <<160>>          \* hex a0
IdBa   == <<186>>          \* hex ba
IdC0   == <<192>>          \* hex c0

\* The entries of the scenario in the order given, acd0 stored twice.
ScenarioEntries ==
    <<<<IdAb, 1>>, <<IdAcd0, 2>>, <<IdAcd0, 3>>, <<IdA0, 4>>, <<IdBa, 5>>>>

\* The vector that keeps the entries at the positions in D, in their order.
RECURSIVE EntriesAt(_, _)
EntriesAt(D, i) ==
    IF i > Len(ScenarioEntries) THEN <<>>
    ELSE (IF i \in D THEN <<ScenarioEntries[i]>> ELSE <<>>) \o EntriesAt(D, i + 1)

ScenarioVecs == {EntriesAt(D, 1) : D \in SUBSET (1..Len(ScenarioEntries))}
ScenarioKeys == {IdAb, IdAcd0, IdA0, IdBa, IdC0}

\* IdIndex::from_vec(vec) for a vector of entries of the scenario
DoFromVecScenario ==
    /\ ~built
    /\ \E vec \in ScenarioVecs : \E s \in FromVecResults(vec) :
          index' = s
    /\ built' = TRUE
    /\ UNCHANGED <<call, ret>>
    /\ UNCHANGED nonIdxVars

\* IdIndex::shortest_unique_prefix_len(key) for a key of the scenario
DoShortestUniquePrefixLenScenario ==
    /\ built
    /\ call.op = "idle"
    /\ \E key \in ScenarioKeys :
          /\ call' = [op |-> "shortest_unique_prefix_len", arg |-> key]
          /\ ret' = ShortestUniquePrefixLen(index, key)
    /\ UNCHANGED <<index, built>>
    /\ UNCHANGED nonIdxVars

IdxScenarioNext ==
    \/ DoFromVecScenario
    \/ DoShortestUniquePrefixLenScenario
    \/ IdxReturn

SpecIdxScenario == IdxInit /\ [][IdxScenarioNext]_vars

\* The index holds all five entries of the scenario.
WholeScenario == built /\ Len(index) = Len(ScenarioEntries)

\* C17 as stated: for the index ab, acd0, acd0, a0, ba the length is 2 for
\* a0, 1 for ba, 2 for ab, 3 for acd0, and 1 for the absent c0.
C17_AsStated ==
    (WholeScenario /\ call.op = "shortest_unique_prefix_len") =>
        ret = (IF call.arg = IdA0 THEN 2
               ELSE IF call.arg = IdBa THEN 1
               ELSE IF call.arg = IdAb THEN 2
               ELSE IF call.arg = IdAcd0 THEN 3
               ELSE 1)

\* C17 amended: for the index ab, acd0, acd0, a0, ba the length is 2 for a0,
\* 1 for ba, 2 for ab, 2 for acd0, and 1 for the absent c0.
C17_ScenarioLengths ==
    (WholeScenario /\ call.op = "shortest_unique_prefix_len") =>
        ret = (IF call.arg = IdA0 THEN 2
               ELSE IF call.arg = IdBa THEN 1
               ELSE IF call.arg = IdAb THEN 2
               ELSE IF call.arg = IdAcd0 THEN 2
               ELSE 1)

\* C17 witness: the length of acd0 asked of the whole index.
C17_Witness ==
    /\ WholeScenario
    /\ call.op = "shortest_unique_prefix_len"
    /\ call.arg = IdAcd0
    /\ ret = 2

----------------------------------------------------------------------------
(* The merged entry table, basename by basename *)

\* What the claim says of the entry of basename n: its value, and the store
\* writes and simplifications of merge_tree_value where that is called.
EntryDecision(n) ==
    LET b  == EntryValue(base, n)
        s1 == EntryValue(side1, n)
        s2 == EntryValue(side2, n)
        as_it_is(v) == [value |-> v, writes |-> <<>>, simplified |-> <<>>]
    IN  IF s2 = b THEN as_it_is(s1)
        ELSE IF s1 = b THEN as_it_is(s2)
        ELSE IF s1 = s2 THEN as_it_is(s1)
        ELSE MergeTreeValue(RootPath, n, b, s1, s2)

\* merge_tree_value is called for basename n.
ChangedBothWays(n) ==
    /\ EntryValue(side2, n) # EntryValue(base, n)
    /\ EntryValue(side1, n) # EntryValue(base, n)
    /\ EntryValue(side1, n) # EntryValue(side2, n)

\* C18: when no shortcut applies, each entry of the merged table is side1's
\* value when side2's equals base's, else side2's value (or none) when
\* side1's equals base's, else the common value when the sides agree, and only
\* otherwise what merge_tree_value returns, removed when that is absence;
\* the store is written by those calls of merge_tree_value and by the final
\* write_tree only.
C18_PerBasename ==
    (merged.called /\ NoShortcut) =>
        /\ \A n \in Names : EntryValue(merged.id, n) = EntryDecision(n).value
        /\ merged.writes = EntryDecision(1).writes \o EntryDecision(2).writes
                           \o <<TreeWrite(RootPath, merged.id)>>
        /\ merged.simplified = EntryDecision(1).simplified \o EntryDecision(2).simplified

\* C18 witness: one basename changed in both sides in different ways, the
\* other added by side2 alone, and the merged table has both outcomes.
C18_Witness ==
    /\ merged.called
    /\ NoShortcut
    /\ ChangedBothWays(1)
    /\ EntryValue(side1, 2) = None
    /\ EntryValue(base, 2) = None
    /\ EntryValue(side2, 2) # None
    /\ EntryValue(merged.id, 2) = EntryValue(side2, 2)
    /\ EntryValue(merged.id, 1) # None
    /\ merged.simplified # <<>>

----------------------------------------------------------------------------
(* The try_resolve_file_conflict state machine *)

MaxResolveTerms == 3

\* The terms of the conflicts given: files of either executable bit and a symlink.
ResolveTerms == {FileA, FileB, ExecA, LinkS}

ResolveConflicts ==
    {Conflict(r, a) : r \in SeqsUpTo(ResolveTerms, MaxResolveTerms),
                      a \in SeqsUpTo(ResolveTerms, MaxResolveTerms)}

\* Every term of the list is a File.
AllFiles(terms) == \A i \in 1..Len(terms) : IsFile(terms[i])

\* The function returns before it chooses the executable bit.
NotReached == <<"not reached">>

ResolveInit ==
    /\ resolving \in ResolveConflicts
    /\ tried = NotCalled
    /\ IdxIdle
    /\ DiffIdle
    /\ MergeIdle
    /\ ConflictIdle
    /\ CtxIdle

\* try_resolve_file_conflict(store, filename, resolving); executable is the
\* choice of the bit the call made where it got that far.
DoTryResolveFileConflict ==
    /\ ~tried.called
    /\ tried' =
          [called |-> TRUE,
           executable |->
               IF \/ Len(resolving.adds) # Len(resolving.removes) + 1
                  \/ ~AllFiles(resolving.removes)
                  \/ ~AllFiles(resolving.adds)
               THEN NotReached
               ELSE Executable(resolving),
           result |-> TryResolveFileConflict(resolving)]
    /\ UNCHANGED resolving
    /\ UNCHANGED nonResolveVars

ResolveNext == DoTryResolveFileConflict

SpecResolve == ResolveInit /\ [][ResolveNext]_vars

\* The numbers of executable and of non-executable files among the adds less
\* those among the removes.
NetExecutable == CountFiles(resolving.adds, TRUE) - CountFiles(resolving.removes, TRUE)
NetRegular == CountFiles(resolving.adds, FALSE) - CountFiles(resolving.removes, FALSE)

\* C20: when the conflict has one add more than removes and every term is a
\* File, try_resolve_file_conflict never takes the 'unable to determine'
\* return: the two net deltas sum to 1, the bit chosen is executable exactly
\* when executable adds less executable removes is at least 1, and a resolved
\* file carries that bit.
C20_ExecutableDecided ==
    (/\ tried.called
     /\ Len(resolving.adds) = Len(resolving.removes) + 1
     /\ AllFiles(resolving.removes)
     /\ AllFiles(resolving.adds)) =>
        /\ tried.executable # None
        /\ NetExecutable + NetRegular = 1
        /\ tried.executable = <<"Some", NetExecutable >= 1>>
        /\ tried.result # None => tried.result[3] = (NetExecutable >= 1)

\* C20 witness: a conflict of files with removes, of both executable bits among
\* its terms, resolved to an executable file.
C20_Witness ==
    /\ tried.called
    /\ Len(resolving.removes) >= 1
    /\ Len(resolving.adds) = Len(resolving.removes) + 1
    /\ AllFiles(resolving.removes)
    /\ AllFiles(resolving.adds)
    /\ CountFiles(resolving.removes, FALSE) >= 1
    /\ CountFiles(resolving.adds, TRUE) >= 1
    /\ tried.result # None
    /\ tried.result[3] = TRUE

----------------------------------------------------------------------------
(* Pair cancellation in simplify_conflict *)

\* The term lists after the two expansion loops of simplify_conflict(given),
\* the input of the cancellation loop.
Flattened ==
    ExpandRemoves(given.removes, ExpandAdds(given.adds, Conflict(<<>>, <<>>)))

\* How many terms of the list have the value v.
CountOf(v, terms) == Cardinality({i \in 1..Len(terms) : terms[i] = v})

\* The values of the terms of a list.
ValuesOf(terms) == {terms[i] : i \in 1..Len(terms)}

\* s is t with some of its terms left out, the others in their order.
RECURSIVE IsSubSeq(_, _)
IsSubSeq(s, t) ==
    IF s = <<>> THEN TRUE
    ELSE IF t = <<>> THEN FALSE
    ELSE IF s[1] = t[1] THEN IsSubSeq(Tail(s), Tail(t))
    ELSE IsSubSeq(s, Tail(t))

\* C21: the cancellation loop of simplify_conflict keeps, for every value,
\* the count in adds less the count in removes; afterwards no value is in
\* both adds and removes; and the adds and the removes that survive are in
\* the order they had in the flattened lists.
C21_Cancellation ==
    once.called =>
        /\ \A v \in ValuesOf(Flattened.adds) \cup ValuesOf(Flattened.removes) :
              CountOf(v, once.conflict.adds) - CountOf(v, once.conflict.removes)
                  = CountOf(v, Flattened.adds) - CountOf(v, Flattened.removes)
        /\ ValuesOf(once.conflict.adds) \cup ValuesOf(once.conflict.removes)
              \subseteq ValuesOf(Flattened.adds) \cup ValuesOf(Flattened.removes)
        /\ ValuesOf(once.conflict.adds) \cap ValuesOf(once.conflict.removes) = {}
        /\ IsSubSeq(once.conflict.adds, Flattened.adds)
        /\ IsSubSeq(once.conflict.removes, Flattened.removes)

\* C21 witness: a conflict with a nested term whose flattened lists have one
\* value twice among the adds and once among the removes; one pair is
\* cancelled and the other add of that value survives.
C21_Witness ==
    /\ once.called
    /\ ~IsFlat(given)
    /\ \E v \in ValuesOf(Flattened.removes) :
          /\ CountOf(v, Flattened.adds) = 2
          /\ CountOf(v, Flattened.removes) = 1
          /\ CountOf(v, once.conflict.adds) = 1
          /\ CountOf(v, once.conflict.removes) = 0
    /\ Len(Flattened.adds) = Len(once.conflict.adds) + 1

----------------------------------------------------------------------------
(* The lazy cell after a failed build *)

\* The step is a call of one of the four operations.
CtxCalling == ctxCall.op = "idle" /\ ctxCall'.op # "idle"

\* What the call answers from the given indexes (Unset: from the repo alone).
AnswerWith(indexes) ==
    IF ctxCall.op = "resolve_commit_prefix"
    THEN CtxResolveCommitPrefix(indexes, repo, HexPrefix(ctxCall.arg))
    ELSE IF ctxCall.op = "resolve_change_prefix"
    THEN CtxResolveChangePrefix(indexes, repo, HexPrefix(ctxCall.arg))
    ELSE IF ctxCall.op = "shortest_commit_prefix_len"
    THEN CtxShortestCommitPrefixLen(indexes, repo, ctxCall.arg)
    ELSE CtxShortestChangePrefixLen(indexes, repo, ctxCall.arg)

\* C22: a failed build of the scope indexes is not cached.  A call on a
\* context with a scope and an unset cell, after whatever failures, resolves
\* and evaluates the revset anew; when that fails the cell stays unset and the
\* answer is the repo's, when it succeeds the pair is stored and the answer is
\* the scope's; and with the pair stored every call answers from it without
\* evaluating.
C22_FailureNotCached ==
    /\ [][/\ (CtxCalling /\ scope.some /\ ~cell.set) =>
                /\ ctxCall'.evaluated
                /\ evals' = evals + 1
                /\ IF ctxCall'.failed
                   THEN cell' = Unset /\ builds' = builds
                   ELSE cell'.set /\ builds' = builds + 1
          /\ (CtxCalling /\ cell.set) =>
                /\ ~ctxCall'.evaluated
                /\ cell' = cell]_vars
    /\ [](/\ (~cell.set /\ scope.some) => builds = 0
          /\ (ctxCall.op # "idle" /\ ~cell.set) => ctxRet = GlobalAnswer
          /\ (ctxCall.op # "idle" /\ cell.set) =>
                /\ ctxRet = AnswerWith(cell)
                /\ {cell.commit_index[i][2] : i \in 1..Len(cell.commit_index)}
                      = {c.id : c \in scope.commits}
                /\ {cell.change_index[i] : i \in 1..Len(cell.change_index)}
                      = {<<c.change_id, c.id>> : c \in scope.commits})

\* C22 witness: the second attempt of a context built the indexes after the
\* first had failed, and the call answers a shorter length than the repo's,
\* which the failed call could only answer.
C22_Witness ==
    /\ ctxCall.op = "shortest_commit_prefix_len"
    /\ ctxCall.evaluated
    /\ ~ctxCall.failed
    /\ evals = 2
    /\ builds = 1
    /\ cell.set
    /\ ctxRet < GlobalAnswer

====
